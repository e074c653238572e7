------------------------- MODULE OperationLedgerProofs -------------------------
(* Theorems about OperationLedger, for every number of tasks, attempts,     *)
(* notes, failures and edits.                                               *)
EXTENDS OperationLedger, TLAPS

-----------------------------------------------------------------------------
(* What the rows look like, and where the call the coroutine is at stands.  *)

OpsShape ==
  /\ ops = [k \in DOMAIN ops |-> ops[k]]
  /\ \A k \in DOMAIN ops :
       /\ k \in Keys /\ ops[k].st \in OpStatus
       /\ ops[k] = [st |-> ops[k].st, attempts |-> ops[k].attempts,
                    prompt |-> ops[k].prompt, answer |-> ops[k].answer]

CallShape ==
  call = [key |-> call.key, recovered |-> call.recovered, prompt |-> call.prompt]

\* A cycle has at most one call that is not done.
OneOpen == \A k, l \in OpenKeys : k = l

CallIsAt(pcs, sts) ==
  pc \in pcs => call.key \in DOMAIN ops /\ ops[call.key].st \in sts

InCall == {"radio", "reserve", "baseline", "begin", "invoking", "invalid", "apply", "mentions",
           "error"}

\* Between two commits the row of the call is where the code thinks it is.
CallFits ==
  /\ pc \in InCall => call.key \in Keys
  /\ CallIsAt({"baseline", "begin"}, {"prepared"}) /\ CallIsAt({"invoking"}, {"invoking"})
  /\ CallIsAt({"invalid"}, {"failed"}) /\ CallIsAt({"apply"}, {"completed", "applied"})
  /\ CallIsAt({"mentions"}, {"applied"})

TaskStatuses == {"pending", "in_progress", "waiting", "completed", "failed", "canceled"}
TasksShape == tasks \in [1 .. Tasks -> TaskStatuses]

CallInv == OpsShape /\ CallShape /\ TasksShape /\ OneOpen /\ CallFits

-----------------------------------------------------------------------------
(* What a step can do to the ledger.                                       *)

\* The row of k takes status `to`; its prompt stays.
Moved(k, to) ==
  /\ k \in DOMAIN ops /\ DOMAIN ops' = DOMAIN ops
  /\ ops'[k].st = to /\ ops'[k].prompt = ops[k].prompt
  /\ \A l \in DOMAIN ops \ {k} : ops'[l] = ops[l]

\* the compare-and-set pairs of the service's transitions, storing an answer apart
Transitions ==
  {<<"prepared", "invoking">>, <<"invoking", "prepared">>, <<"invoking", "waiting">>,
   <<"invoking", "ambiguous">>, <<"waiting", "prepared">>, <<"ambiguous", "prepared">>,
   <<"invoking", "failed">>, <<"completed", "applied">>}

Inserts(k) ==
  /\ k \in Keys \ DOMAIN ops /\ OpenKeys = {}
  /\ ops' = Inserted(ops, k, [st |-> "prepared", attempts |-> 0, prompt |-> call.prompt,
                              answer |-> "none"])
  /\ UNCHANGED call /\ pc = "reserve"

Reconciles == ops' = [k \in DOMAIN ops |-> [ops[k] EXCEPT !.st = Reconciled(k)]]

OpsStep ==
  \/ UNCHANGED ops
  \/ \E k \in Keys : Inserts(k)
  \/ \E k \in DOMAIN ops, to \in OpStatus :
       /\ <<ops[k].st, to>> \in Transitions /\ (to = "applied" => ApplyOutcome)
       /\ Moved(k, to) /\ ops'[k].answer = ops[k].answer
  \/ \E k \in DOMAIN ops, a \in {"done", "noted"} :
       ops[k].st = "invoking" /\ Moved(k, "completed") /\ ops'[k].answer = a
  \/ Reconciles

LEMMA MoveEffect ==
  ASSUME OpsShape, NEW k \in DOMAIN ops, NEW from \in OpStatus, NEW to \in OpStatus,
         Move(k, from, to)
  PROVE  ops[k].st = from /\ Moved(k, to) /\ ops'[k].answer = ops[k].answer /\ OpsShape'
<1>1. /\ DOMAIN ops' = DOMAIN ops /\ ops' = [l \in DOMAIN ops' |-> ops'[l]]
      /\ ops'[k] = [ops[k] EXCEPT !.st = to]
      /\ \A l \in DOMAIN ops \ {k} : ops'[l] = ops[l]
  BY DEF OpsShape, Move, With
<1>2. ops'[k] = [st |-> to, attempts |-> ops[k].attempts, prompt |-> ops[k].prompt,
                 answer |-> ops[k].answer]
  BY <1>1 DEF OpsShape
<1> QED BY <1>1, <1>2 DEF Move, Moved, OpsShape

LEMMA BeginEffect ==
  ASSUME CallInv, BeginAttempt
  PROVE  /\ ops[call.key].st = "prepared" /\ Moved(call.key, "invoking")
         /\ ops'[call.key].answer = ops[call.key].answer /\ OpsShape'
<1> DEFINE k == call.key
<1>1. k \in DOMAIN ops /\ ops[k].st = "prepared"
  BY DEF CallInv, CallFits, CallIsAt, BeginAttempt
<1>2. /\ DOMAIN ops' = DOMAIN ops /\ ops' = [l \in DOMAIN ops' |-> ops'[l]]
      /\ ops'[k] = [ops[k] EXCEPT !.st = "invoking", !.attempts = @ + 1]
      /\ \A l \in DOMAIN ops \ {k} : ops'[l] = ops[l]
  BY <1>1 DEF CallInv, OpsShape, BeginAttempt
<1>3. ops'[k] = [st |-> "invoking", attempts |-> ops[k].attempts + 1, prompt |-> ops[k].prompt,
                 answer |-> ops[k].answer]
  BY <1>1, <1>2 DEF CallInv, OpsShape
<1> QED BY <1>1, <1>2, <1>3 DEF Moved, CallInv, OpsShape, OpStatus

LEMMA CompleteEffect ==
  ASSUME CallInv, NEW a \in {"done", "noted"}, Complete(a)
  PROVE  /\ ops[call.key].st = "invoking" /\ Moved(call.key, "completed")
         /\ ops'[call.key].answer = a /\ OpsShape'
<1> DEFINE k == call.key
<1>1. k \in DOMAIN ops /\ ops[k].st = "invoking"
  BY DEF CallInv, CallFits, CallIsAt, Complete
<1>2. /\ DOMAIN ops' = DOMAIN ops /\ ops' = [l \in DOMAIN ops' |-> ops'[l]]
      /\ ops'[k] = [ops[k] EXCEPT !.st = "completed", !.answer = a]
      /\ \A l \in DOMAIN ops \ {k} : ops'[l] = ops[l]
  BY <1>1 DEF CallInv, OpsShape, Complete
<1>3. ops'[k] = [st |-> "completed", attempts |-> ops[k].attempts, prompt |-> ops[k].prompt,
                 answer |-> a]
  BY <1>1, <1>2 DEF CallInv, OpsShape
<1> QED BY <1>1, <1>2, <1>3 DEF Moved, CallInv, OpsShape, OpStatus

LEMMA InsertEffect ==
  ASSUME OpsShape, NEW k \in Keys, Inserts(k)
  PROVE  /\ OpsShape' /\ DOMAIN ops' = DOMAIN ops \cup {k}
         /\ ops'[k].st = "prepared" /\ ops'[k].prompt = call.prompt /\ ops'[k].answer = "none"
         /\ \A l \in DOMAIN ops : ops'[l] = ops[l]
BY DEF OpsShape, Inserts, Inserted, OpStatus

LEMMA ReconcileEffect ==
  ASSUME OpsShape, Reconciles
  PROVE  /\ OpsShape' /\ DOMAIN ops' = DOMAIN ops
         /\ \A k \in DOMAIN ops : /\ ops'[k].st = Reconciled(k)
                                  /\ ops'[k].prompt = ops[k].prompt
                                  /\ ops'[k].answer = ops[k].answer
<1>1. /\ DOMAIN ops' = DOMAIN ops /\ ops' = [k \in DOMAIN ops' |-> ops'[k]]
      /\ \A k \in DOMAIN ops : ops'[k] = [ops[k] EXCEPT !.st = Reconciled(k)]
  BY DEF Reconciles
<1>2. \A k \in DOMAIN ops :
        ops'[k] = [st |-> Reconciled(k), attempts |-> ops[k].attempts,
                   prompt |-> ops[k].prompt, answer |-> ops[k].answer]
  BY <1>1 DEF OpsShape
<1>3. \A k \in DOMAIN ops : Reconciled(k) \in OpStatus
  BY DEF Reconciled, OpsShape, OpStatus
<1> QED BY <1>1, <1>2, <1>3 DEF OpsShape

\* Every step is one of these, and keeps the shape of the rows.
LEMMA OpsSteps == CallInv /\ [Next]_vars => OpsStep /\ OpsShape'
<1> SUFFICES ASSUME CallInv, [Next]_vars PROVE OpsStep /\ OpsShape'
  OBVIOUS
<1> USE DEF CallInv
<1>u. UNCHANGED ops => OpsStep /\ OpsShape'
  BY DEF OpsStep, OpsShape
<1>m. ASSUME NEW k \in DOMAIN ops, NEW from \in OpStatus, NEW to \in OpStatus,
             <<from, to>> \in Transitions, to = "applied" => ApplyOutcome, Move(k, from, to)
      PROVE  OpsStep /\ OpsShape'
  BY <1>m, MoveEffect DEF OpsStep
<1>s. {"prepared", "invoking", "waiting", "ambiguous", "failed", "completed", "applied"}
        \subseteq OpStatus
  BY DEF OpStatus
<1>at. /\ pc \in {"begin", "invoking"} => call.key \in DOMAIN ops
       /\ pc = "apply" => call.key \in DOMAIN ops
  BY DEF CallFits, CallIsAt
<1>1. CASE Step
  <2>1. ASSUME RecoverOpen \/ StartTask \/ Finish \/ Radio \/ Baseline \/ Repair
               \/ StoreMentions \/ TaskFails \/ RunFails
        PROVE UNCHANGED ops
    BY <2>1 DEF RecoverOpen, StartTask, Finish, Radio, Baseline, Repair, StoreMentions,
       TaskFails, RunFails, ledger
  <2>2. ASSUME Reserve PROVE OpsStep /\ OpsShape'
    <3>1. CASE UNCHANGED ops
      BY <3>1, <1>u
    <3>2. CASE ~UNCHANGED ops
      <4>1. call.key \in Keys /\ Inserts(call.key)
        BY <2>2, <3>2 DEF Reserve, Inserts, CallFits, InCall
      <4> QED BY <4>1, InsertEffect DEF OpsStep
    <3> QED BY <3>1, <3>2
  <2>3. ASSUME BeginAttempt PROVE OpsStep /\ OpsShape'
    BY <2>3, <1>at, <1>s, BeginEffect DEF OpsStep, Transitions, BeginAttempt
  <2>4. ASSUME MarkFailed PROVE OpsStep /\ OpsShape'
    BY <2>4, <1>m, <1>s, <1>at DEF MarkFailed, Transitions
  <2>5. ASSUME NEW a \in {"done", "noted"}, Complete(a) PROVE OpsStep /\ OpsShape'
    BY <2>5, <1>at, CompleteEffect DEF OpsStep, Complete
  <2>6. ASSUME ApplyOutcome PROVE OpsStep /\ OpsShape'
    <3>1. CASE UNCHANGED ops
      BY <3>1, <1>u
    <3>2. CASE ~UNCHANGED ops
      <4>1. Move(call.key, "completed", "applied") /\ pc = "apply"
        BY <2>6, <3>2 DEF ApplyOutcome
      <4> QED BY <2>6, <4>1, <1>m, <1>s, <1>at DEF Transitions
    <3> QED BY <3>1, <3>2
  <2> QED BY <1>1, <1>u, <2>1, <2>2, <2>3, <2>4, <2>5, <2>6 DEF Step
<1>2. CASE Restart
  BY <1>2, ReconcileEffect DEF Restart, Reconciles, OpsStep
<1>3. CASE World
  <2>1. ASSUME RadioFails \/ Edit \/ Cancel \/ Crash \/ UserResumes PROVE UNCHANGED ops
    BY <2>1 DEF RadioFails, Degrade, Edit, Cancel, Crash, UserResumes, ledger
  <2>2. ASSUME PrepareRetry \/ WaitForOperation \/ Ambiguous PROVE OpsStep /\ OpsShape'
    BY <2>2, <1>u, <1>m, <1>s, <1>at
       DEF PrepareRetry, WaitForOperation, Ambiguous, Transitions
  <2>3. ASSUME ClaimOperation \/ ExplicitResume PROVE OpsStep /\ OpsShape'
    <3>1. PICK k \in OpenKeys, from \in {"waiting", "ambiguous"} : Move(k, from, "prepared")
      BY <2>3 DEF ClaimOperation, ExplicitResume, Reclaim
    <3> QED BY <3>1, <1>m, <1>s DEF Transitions, OpenKeys
  <2> QED BY <1>3, <1>u, <2>1, <2>2, <2>3 DEF World
<1>4. CASE UNCHANGED vars
  BY <1>4, <1>u DEF vars, ledger
<1> QED BY <1>1, <1>2, <1>3, <1>4 DEF Next

\* A call is opened only when none is open, and no step opens one again.
LEMMA OneOpenStep ==
  ASSUME OpsShape, OneOpen, OpsStep
  PROVE  OneOpen' /\ \A k \in DOMAIN ops : k \in DOMAIN ops'
<1>1. CASE UNCHANGED ops
  BY <1>1 DEF OneOpen, OpenKeys
<1>2. ASSUME NEW k \in Keys, Inserts(k) PROVE OneOpen' /\ \A l \in DOMAIN ops : l \in DOMAIN ops'
  <2>1. /\ DOMAIN ops' = DOMAIN ops \cup {k} /\ OpenKeys = {}
        /\ \A l \in DOMAIN ops : ops'[l] = ops[l]
    BY <1>2, InsertEffect DEF Inserts
  <2>2. OpenKeys' \subseteq {k}
    BY <2>1 DEF OpenKeys
  <2> QED BY <2>1, <2>2 DEF OneOpen
<1>3. ASSUME NEW k \in DOMAIN ops, NEW to, Moved(k, to), ops[k].st \in OpenOp
      PROVE OneOpen' /\ \A l \in DOMAIN ops : l \in DOMAIN ops'
  BY <1>3 DEF Moved, OneOpen, OpenKeys
<1>4. CASE Reconciles
  <2>1. \A k \in DOMAIN ops : Reconciled(k) \in OpenOp => ops[k].st \in OpenOp
    BY DEF Reconciled, OpenKeys, OpenOp
  <2> QED BY <2>1, <1>4, ReconcileEffect DEF OneOpen, OpenKeys
<1>5. \A st, to : <<st, to>> \in Transitions => st \in OpenOp
  BY DEF Transitions, OpenOp
<1> QED BY <1>1, <1>2, <1>3, <1>4, <1>5 DEF OpsStep, OpenOp

LEMMA TasksStep == TasksShape /\ CallFits /\ [Next]_vars => TasksShape'
<1> SUFFICES ASSUME TasksShape, CallFits, [Next]_vars PROVE TasksShape'
  OBVIOUS
<1>w. ASSUME NEW i, NEW st \in TaskStatuses, tasks' = [tasks EXCEPT ![i] = st] PROVE TasksShape'
  BY <1>w DEF TasksShape
<1>i. ASSUME NEW sts, tasks' = Interrupted(sts) PROVE TasksShape'
  BY <1>i DEF TasksShape, Interrupted, TaskStatuses
<1>p. ASSUME NEW st \in TaskStatuses,
             tasks' = [i \in DOMAIN tasks |-> IF i \in InProgress THEN st ELSE tasks[i]]
      PROVE TasksShape'
  BY <1>p DEF TasksShape
<1>u. UNCHANGED tasks => TasksShape'
  BY DEF TasksShape
<1>s. {"in_progress", "waiting", "completed", "failed", "canceled"} \subseteq TaskStatuses
  BY DEF TaskStatuses
<1>1. CASE Step
  <2>1. ASSUME RecoverOpen \/ Finish \/ Radio \/ Reserve \/ Baseline \/ BeginAttempt
               \/ MarkFailed \/ Repair \/ StoreMentions \/ \E a \in {"done", "noted"} : Complete(a)
        PROVE UNCHANGED tasks
    BY <2>1 DEF RecoverOpen, Finish, Radio, Reserve, Baseline, BeginAttempt, MarkFailed,
       Repair, StoreMentions, Complete, status
  <2>2. ASSUME StartTask \/ ApplyOutcome \/ TaskFails PROVE TasksShape'
    BY <2>2, <1>w, <1>u, <1>s DEF StartTask, ApplyOutcome, TaskFails
  <2>3. ASSUME RunFails PROVE TasksShape'
    BY <2>3, <1>p, <1>s DEF RunFails
  <2> QED BY <1>1, <1>u, <2>1, <2>2, <2>3 DEF Step
<1>2. CASE Restart
  BY <1>2, <1>i, <1>u DEF Restart
<1>3. CASE World
  <2>1. ASSUME RadioFails \/ PrepareRetry \/ Edit \/ Crash \/ UserResumes PROVE UNCHANGED tasks
    BY <2>1 DEF RadioFails, Degrade, PrepareRetry, Edit, Crash, UserResumes, status
  <2>2. ASSUME WaitForOperation \/ ClaimOperation \/ ExplicitResume PROVE TasksShape'
    BY <2>2, <1>w, <1>u, <1>s DEF WaitForOperation, ClaimOperation, ExplicitResume, Reclaim
  <2>3. ASSUME Ambiguous \/ Cancel PROVE TasksShape'
    BY <2>3, <1>i, <1>p, <1>s DEF Ambiguous, Cancel
  <2> QED BY <1>3, <1>u, <2>1, <2>2, <2>3 DEF World
<1>4. CASE UNCHANGED vars
  BY <1>4, <1>u DEF vars, status
<1> QED BY <1>1, <1>2, <1>3, <1>4 DEF Next

\* One case per step of the coroutine.
LEMMA CallFitsStep == CallInv /\ [Next]_vars => CallShape' /\ CallFits'
<1> SUFFICES ASSUME CallInv, [Next]_vars PROVE CallShape' /\ CallFits'
  OBVIOUS
<1> USE DEF CallInv
<1>a. ASSUME pc' \in {"loop", "idle", "down"}, call' = NoCall PROVE CallShape' /\ CallFits'
  BY <1>a DEF CallShape, NoCall, CallOf, CallFits, CallIsAt, InCall
<1>b. ASSUME NEW key \in Keys, NEW rec, Enter(key, rec) PROVE CallShape' /\ CallFits'
  BY <1>b DEF CallShape, Enter, CallOf, CallFits, CallIsAt, InCall
<1>c. ASSUME pc \in InCall, pc' \in {"error", "reserve"}, UNCHANGED call
      PROVE CallShape' /\ CallFits'
  BY <1>c DEF CallShape, CallFits, CallIsAt, InCall
<1>d. ASSUME NEW to, Moved(call.key, to), UNCHANGED call, pc \in InCall,
             \/ pc' \in {"baseline", "begin"} /\ to = "prepared"
             \/ pc' = "invoking" /\ to = "invoking"
             \/ pc' = "invalid" /\ to = "failed"
             \/ pc' = "apply" /\ to = "completed"
             \/ pc' = "mentions" /\ to = "applied"
      PROVE CallShape' /\ CallFits'
  BY <1>d DEF Moved, CallShape, CallFits, CallIsAt, InCall
<1>at. /\ pc \in {"begin", "invoking", "apply"} => call.key \in DOMAIN ops
       /\ pc \in InCall => call.key \in Keys
  BY DEF CallFits, CallIsAt
<1>s. {"prepared", "invoking", "waiting", "ambiguous", "failed", "completed", "applied"}
        \subseteq OpStatus
  BY DEF OpStatus
<1>k. DOMAIN ops \subseteq Keys /\ OpenKeys \subseteq DOMAIN ops
  BY DEF OpsShape, OpenKeys
<1>1. ASSUME RecoverOpen PROVE CallShape' /\ CallFits'
  <2>1. PICK key \in OpenKeys :
          \/ Enter(key, TRUE)
          \/ pc' = "apply" /\ ops[key].st = "completed" /\ call' = CallOf(key, TRUE)
          \/ pc' = "error" /\ call' = CallOf(key, TRUE)
    <3> DEFINE first == CHOOSE k \in OpenKeys : TRUE
    <3>1. first \in OpenKeys
      BY <1>1 DEF RecoverOpen
    <3>2. \/ Enter(first, TRUE)
          \/ pc' = "apply" /\ ops[first].st = "completed" /\ call' = CallOf(first, TRUE)
          \/ pc' = "error" /\ call' = CallOf(first, TRUE)
      BY <1>1 DEF RecoverOpen
    <3> HIDE DEF first
    <3> QED BY <3>1, <3>2
  <2>2. UNCHANGED ops
    BY <1>1 DEF RecoverOpen, ledger
  <2>3. key \in Keys
    BY <1>k
  <2>4. CASE Enter(key, TRUE)
    BY <2>3, <2>4, <1>b
  <2>5. CASE pc' = "apply" /\ ops[key].st = "completed" /\ call' = CallOf(key, TRUE)
    BY <2>2, <2>3, <2>5, <1>k DEF CallOf, CallShape, CallFits, CallIsAt, InCall
  <2>6. CASE pc' = "error" /\ call' = CallOf(key, TRUE)
    BY <2>3, <2>6 DEF CallOf, CallShape, CallFits, CallIsAt, InCall
  <2> QED BY <2>1, <2>4, <2>5, <2>6
<1>2. ASSUME StartTask PROVE CallShape' /\ CallFits'
  <2>1. PICK i \in Ready : Enter(<<i, 0>>, FALSE)
    BY <1>2 DEF StartTask
  <2>2. <<i, 0>> \in Keys
    BY DEF Keys, Ready, TasksShape
  <2> QED BY <2>1, <2>2, <1>b
<1>3. ASSUME Finish \/ StoreMentions \/ TaskFails \/ RunFails \/ Ambiguous \/ Cancel \/ Crash
      PROVE CallShape' /\ CallFits'
  BY <1>3, <1>a DEF Finish, StoreMentions, TaskFails, RunFails, Ambiguous, Cancel, Crash, Stops
<1>4. ASSUME Radio PROVE CallShape' /\ CallFits'
  <2>1. CASE UNCHANGED call
    BY <1>4, <2>1, <1>c DEF Radio, InCall
  <2>2. CASE call' = [call EXCEPT !.prompt = Prefix(Bound(call.key))]
    <3>1. call' = [key |-> call.key, recovered |-> call.recovered, prompt |-> Prefix(Bound(call.key))]
      BY <2>2 DEF CallShape
    <3> QED BY <1>4, <3>1, <1>at DEF Radio, CallShape, CallFits, CallIsAt, InCall
  <2> QED BY <1>4, <2>1, <2>2 DEF Radio
<1>5. ASSUME RadioFails PROVE CallShape' /\ CallFits'
  BY <1>5, <1>c DEF RadioFails, Degrade, InCall
<1>6. ASSUME Reserve PROVE CallShape' /\ CallFits'
  <2>0. call.key \in Keys /\ UNCHANGED call /\ pc = "reserve"
    BY <1>6, <1>at DEF Reserve, InCall
  <2>1. CASE call.key \in DOMAIN ops /\ UNCHANGED ops
    BY <1>6, <2>0, <2>1 DEF Reserve, CallShape, CallFits, CallIsAt, InCall
  <2>2. CASE pc' = "error"
    BY <2>0, <2>2, <1>c DEF InCall
  <2>3. CASE Inserts(call.key) /\ pc' = "baseline"
    BY <2>0, <2>3, InsertEffect DEF CallShape, CallFits, CallIsAt, InCall
  <2> QED BY <1>6, <2>0, <2>1, <2>2, <2>3 DEF Reserve, Inserts
<1>7. ASSUME Baseline PROVE CallShape' /\ CallFits'
  <2>1. UNCHANGED <<ops, call>> /\ pc = "baseline" /\ pc' \in {"begin", "error"}
    BY <1>7 DEF Baseline, RecordBaseline
  <2> QED BY <2>1 DEF CallShape, CallFits, CallIsAt, InCall
<1>8. ASSUME BeginAttempt PROVE CallShape' /\ CallFits'
  BY <1>8, <1>d, BeginEffect DEF BeginAttempt, InCall
<1>9. ASSUME PrepareRetry \/ MarkFailed PROVE CallShape' /\ CallFits'
  BY <1>9, <1>d, <1>at, <1>s, MoveEffect DEF PrepareRetry, MarkFailed, InCall
<1>10. ASSUME WaitForOperation PROVE CallShape' /\ CallFits'
  BY <1>10, <1>a, <1>c DEF WaitForOperation, Stops, InCall
<1>11. ASSUME NEW a \in {"done", "noted"}, Complete(a) PROVE CallShape' /\ CallFits'
  BY <1>11, <1>d, CompleteEffect DEF Complete, InCall
<1>12. ASSUME Repair PROVE CallShape' /\ CallFits'
  <2>1. CASE Enter(<<call.key[1], 1>>, FALSE)
    <3>1. <<call.key[1], 1>> \in Keys
      BY <1>12, <1>at DEF Repair, Keys, InCall
    <3> QED BY <2>1, <3>1, <1>b
  <2>2. CASE pc' = "error" /\ UNCHANGED call
    BY <1>12, <2>2, <1>c DEF Repair, InCall
  <2> QED BY <1>12, <2>1, <2>2 DEF Repair
<1>13. ASSUME ApplyOutcome PROVE CallShape' /\ CallFits'
  <2>0. pc = "apply" /\ UNCHANGED call
    BY <1>13 DEF ApplyOutcome
  <2>1. CASE pc' = "mentions" /\ UNCHANGED ops /\ ops[call.key].st = "applied"
    BY <2>0, <2>1, <1>at DEF CallShape, CallFits, CallIsAt, InCall
  <2>2. CASE pc' = "mentions" /\ Move(call.key, "completed", "applied")
    BY <2>0, <2>2, <1>at, <1>s, <1>d, MoveEffect DEF InCall
  <2>3. CASE pc' = "error"
    BY <2>0, <2>3, <1>c DEF InCall
  <2> QED BY <1>13, <2>1, <2>2, <2>3 DEF ApplyOutcome
<1>14. ASSUME Edit \/ UNCHANGED vars PROVE CallShape' /\ CallFits'
  BY <1>14 DEF Edit, ledger, status, vars, CallShape, CallFits, CallIsAt
<1>15. ASSUME Restart \/ ClaimOperation \/ ExplicitResume \/ UserResumes
       PROVE CallShape' /\ CallFits'
  <2>1. UNCHANGED call /\ pc' \in {"loop", "idle"}
    BY <1>15 DEF Restart, ClaimOperation, ExplicitResume, Reclaim, UserResumes
  <2> QED BY <2>1 DEF CallShape, CallFits, CallIsAt, InCall
<1> QED BY <1>1, <1>2, <1>3, <1>4, <1>5, <1>6, <1>7, <1>8, <1>9, <1>10, <1>11, <1>12, <1>13,
        <1>14, <1>15 DEF Next, Step, World

LEMMA CallInvStep == CallInv /\ [Next]_vars => CallInv'
<1> SUFFICES ASSUME CallInv, [Next]_vars PROVE CallInv'
  OBVIOUS
<1>1. OpsStep /\ OpsShape'
  BY OpsSteps
<1>2. OneOpen'
  BY <1>1, OneOpenStep DEF CallInv
<1> QED BY <1>1, <1>2, TasksStep, CallFitsStep DEF CallInv

LEMMA CallInvInit == Init => CallInv
<1> SUFFICES ASSUME Init PROVE CallInv
  OBVIOUS
<1>1. DOMAIN ops = {} /\ ops = [k \in DOMAIN ops |-> ops[k]]
  BY DEF Init
<1>2. CallShape /\ TasksShape /\ CallFits
  BY DEF Init, CallShape, NoCall, CallOf, TasksShape, TaskStatuses, CallFits, CallIsAt, InCall
<1> QED BY <1>1, <1>2 DEF CallInv, OpsShape, OneOpen, OpenKeys

-----------------------------------------------------------------------------
(* The ledger implements ModelCalls: every step of it is one of ModelCalls  *)
(* for the call it moves, or changes no stage and no answer.               *)

\* the calls as ModelCalls sees them
CallsSeen == [k \in DOMAIN ops |-> [at |-> Stage(ops[k].st), answer |-> ops[k].answer]]

LEMMA Stages ==
  /\ \A st \in OpStatus : /\ Stage(st) \in {"open", "answered"} <=> st \in OpenOp
                          /\ Stage(st) = "open" <=>
                               st \in {"prepared", "invoking", "waiting", "ambiguous"}
  /\ Stage("completed") = "answered" /\ Stage("applied") = "applied"
  /\ Stage("failed") = "dropped" /\ Stage("canceled") = "dropped"
BY DEF Stage, OpStatus, OpenOp

\* A step that moves one call, seen from outside.
LEMMA SeenMove ==
  ASSUME OpsShape, OpsShape', NEW k \in DOMAIN ops, NEW to, Moved(k, to)
  PROVE  CallsSeen' = [CallsSeen EXCEPT ![k] = [at |-> Stage(to), answer |-> ops'[k].answer]]
BY DEF Moved, CallsSeen

LEMMA CallsInit == Init => Calls!Init
BY DEF Init, Calls!Init

LEMMA CallsStep == CallInv /\ [Next]_vars => [Calls!Next]_CallsSeen
<1> SUFFICES ASSUME CallInv, [Next]_vars PROVE Calls!Next \/ CallsSeen' = CallsSeen
  BY DEF CallsSeen
<1> USE DEF CallInv
<1>a. OpsStep /\ OpsShape'
  BY OpsSteps
<1>d. DOMAIN CallsSeen = DOMAIN ops /\ DOMAIN CallsSeen' = DOMAIN ops'
  BY DEF CallsSeen
<1>o. ASSUME NEW k \in DOMAIN ops, ops[k].st \in OpenOp
      PROVE k \in Calls!Undone
  BY <1>o, Stages DEF OpsShape, Calls!Undone
<1>1. CASE UNCHANGED ops
  BY <1>1 DEF CallsSeen
<1>2. ASSUME NEW k \in Keys, Inserts(k) PROVE Calls!Next
  <2>1. Calls!Undone = {}
    BY <1>2, Stages DEF Inserts, OpenKeys, OpsShape, Calls!Undone
  <2>2. /\ DOMAIN ops' = DOMAIN ops \cup {k} /\ k \notin DOMAIN ops
        /\ ops'[k].st = "prepared" /\ ops'[k].answer = "none"
        /\ \A l \in DOMAIN ops : ops'[l] = ops[l]
    BY <1>2, InsertEffect DEF Inserts
  <2>3. Stage("prepared") = "open"
    BY DEF Stage
  <2>4. CallsSeen' = [j \in DOMAIN CallsSeen \cup {k} |->
                        IF j = k THEN [at |-> "open", answer |-> "none"] ELSE CallsSeen[j]]
    BY <2>2, <2>3 DEF CallsSeen
  <2>5. Calls!Reserve(k)
    BY <2>1, <2>2, <2>4, <1>d DEF Calls!Reserve, CallsSeen
  <2> QED BY <2>2, <2>5, <1>d DEF Calls!Next, CallsSeen
<1>3. ASSUME NEW k \in DOMAIN ops, NEW to \in OpStatus, <<ops[k].st, to>> \in Transitions,
             Moved(k, to), ops'[k].answer = ops[k].answer
      PROVE Calls!Next \/ CallsSeen' = CallsSeen
  <2>1. CallsSeen' = [CallsSeen EXCEPT ![k] = [at |-> Stage(to), answer |-> ops[k].answer]]
    BY <1>3, <1>a, SeenMove
  <2>2. CallsSeen[k] = [at |-> Stage(ops[k].st), answer |-> ops[k].answer]
    BY DEF CallsSeen
  <2>3. CASE Stage(to) = Stage(ops[k].st)
    BY <2>1, <2>2, <2>3 DEF CallsSeen
  <2>4. CASE to = "failed"
    <3>1. ops[k].st \in OpenOp
      BY <1>3, <2>4 DEF Transitions, OpenOp
    <3>2. CallsSeen' = [CallsSeen EXCEPT ![k].at = "dropped"]
      BY <2>1, <2>2, <2>4, Stages DEF CallsSeen
    <3>3. Calls!Drop(k)
      BY <3>1, <3>2, <1>o DEF Calls!Drop, CallsSeen
    <3> QED BY <3>3, <1>3, <1>d DEF Moved, Calls!Next, CallsSeen
  <2>5. CASE to = "applied"
    <3>1. ops[k].st = "completed"
      BY <1>3, <2>5 DEF Transitions
    <3>2. CallsSeen' = [CallsSeen EXCEPT ![k].at = "applied"]
      BY <2>1, <2>2, <2>5, Stages DEF CallsSeen
    <3>3. Calls!Apply(k)
      BY <3>1, <3>2, <2>2, <1>d, Stages DEF Calls!Apply, CallsSeen
    <3> QED BY <3>3, <1>3, <1>d DEF Moved, Calls!Next, CallsSeen
  <2>6. Stage(to) = Stage(ops[k].st) \/ to \in {"failed", "applied"}
    BY <1>3 DEF Transitions, Stage
  <2> QED BY <2>3, <2>4, <2>5, <2>6
<1>4. ASSUME NEW k \in DOMAIN ops, NEW a \in {"done", "noted"}, ops[k].st = "invoking",
             Moved(k, "completed"), ops'[k].answer = a
      PROVE Calls!Next
  <2>1. CallsSeen' = [CallsSeen EXCEPT ![k] = [at |-> "answered", answer |-> a]]
    BY <1>4, <1>a, SeenMove, Stages
  <2>2. CallsSeen[k].at = "open" /\ CallsSeen'[k].answer = a
    BY <1>4, Stages DEF CallsSeen, Moved, OpsShape
  <2>3. Calls!Answer(k, CallsSeen'[k].answer)
    BY <2>1, <2>2, <1>d DEF Calls!Answer, CallsSeen
  <2> QED BY <2>3, <1>4, <1>d DEF Moved, Calls!Next, CallsSeen
<1>5. CASE Reconciles
  <2>1. /\ DOMAIN ops' = DOMAIN ops
        /\ \A k \in DOMAIN ops : ops'[k].st = Reconciled(k) /\ ops'[k].answer = ops[k].answer
    BY <1>5, ReconcileEffect
  <2>2. CASE source # "canceled" \/ OpenKeys = {}
    <3>1. \A k \in DOMAIN ops : Stage(ops'[k].st) = Stage(ops[k].st)
      BY <2>1, <2>2, Stages DEF Reconciled, OpsShape, OpStatus
    <3> QED BY <2>1, <3>1 DEF CallsSeen
  <2>3. CASE source = "canceled" /\ OpenKeys # {}
    <3>1. PICK k \in OpenKeys : TRUE
      BY <2>3
    <3>2. k \in DOMAIN ops /\ ops[k].st \in OpenOp
      BY DEF OpenKeys
    <3>3. ops'[k].st = "canceled"
      BY <2>1, <2>3, <3>2 DEF Reconciled
    <3>4. ASSUME NEW l \in DOMAIN ops, l # k PROVE ops'[l].st = ops[l].st
      <4>1. l \notin OpenKeys
        BY <3>1, <3>4 DEF OneOpen
      <4> QED BY <2>1, <2>3, <3>4, <4>1 DEF Reconciled
    <3>5. CallsSeen' = [CallsSeen EXCEPT ![k].at = "dropped"]
      BY <2>1, <3>2, <3>3, <3>4, Stages DEF CallsSeen
    <3>6. Calls!Drop(k)
      BY <3>2, <3>5, <1>o DEF Calls!Drop, CallsSeen
    <3> QED BY <3>2, <3>6, <2>1, <1>d DEF Calls!Next, CallsSeen
  <2> QED BY <2>2, <2>3
<1> QED BY <1>a, <1>1, <1>2, <1>3, <1>4, <1>5 DEF OpsStep

\* Across retries, waits, crashes, cancellations and resumes the ledger never
\* opens a second call beside an open one, and stores and applies an answer once.
THEOREM LedgerImplementsModelCalls == Spec => CallsAreOnce
<1>1. Init => CallInv /\ Calls!Init
  BY CallInvInit, CallsInit
<1> QED BY <1>1, CallInvStep, CallsStep, PTL DEF Spec, CallsAreOnce, Calls!Spec, CallsSeen

-----------------------------------------------------------------------------
(* Prompts.  A call carries the notes bound to it, and none if none were    *)
(* bound when it was reserved: later steps bind nothing to a reserved call. *)

PromptOf(k) == IF k \in DOMAIN deliveries THEN Prefix(deliveries[k]) ELSE Plain

PromptsFit ==
  /\ \A k \in DOMAIN ops : ops[k].prompt = PromptOf(k)
  /\ pc = "reserve" => call.prompt = PromptOf(call.key)
  /\ pc = "radio" => call.prompt = Plain

PromptInv == CallInv /\ PromptsFit

\* What a step leaves of the prompts when it binds no notes and inserts no call.
LEMMA PromptsKept ==
  ASSUME OpsShape, PromptsFit, OpsStep, ~(\E k \in Keys : Inserts(k)), UNCHANGED deliveries
  PROVE  \A k \in DOMAIN ops' : ops'[k].prompt = PromptOf(k)'
<1>1. DOMAIN ops' = DOMAIN ops /\ \A k \in DOMAIN ops : ops'[k].prompt = ops[k].prompt
  BY ReconcileEffect DEF OpsStep, Moved
<1> QED BY <1>1 DEF PromptsFit, PromptOf

LEMMA PromptsStep == PromptInv /\ [Next]_vars => PromptsFit'
<1> SUFFICES ASSUME PromptInv, [Next]_vars PROVE PromptsFit'
  OBVIOUS
<1> USE DEF PromptInv
<1>a. OpsStep /\ OpsShape /\ OpsShape' /\ CallInv /\ CallInv'
  BY OpsSteps, CallInvStep DEF CallInv
<1>k. ASSUME UNCHANGED deliveries, pc # "reserve" PROVE \A k \in DOMAIN ops' : ops'[k].prompt = PromptOf(k)'
  BY <1>a, <1>k, PromptsKept DEF Inserts
\* elsewhere than at the notes and the reservation nothing is asked
<1>r. ASSUME UNCHANGED deliveries, pc # "reserve", pc' \notin {"radio", "reserve"} PROVE PromptsFit'
  BY <1>k, <1>r DEF PromptsFit
<1>e. ASSUME UNCHANGED deliveries, pc # "reserve", NEW key, NEW rec, Enter(key, rec)
      PROVE PromptsFit'
  BY <1>k, <1>e DEF PromptsFit, Enter, CallOf
<1>1. ASSUME Radio PROVE PromptsFit'
  <2> DEFINE key == call.key
  <2>0. ops' = ops /\ pc' = "reserve" /\ call.prompt = Plain
    BY <1>1 DEF Radio, PromptsFit
  <2>1. CASE key \in DOMAIN ops \ DOMAIN deliveries
    BY <1>1, <2>0, <2>1 DEF Radio, PromptsFit, PromptOf
  <2>2. CASE key \notin DOMAIN ops \ DOMAIN deliveries
    <3>1. /\ call' = [call EXCEPT !.prompt = Prefix(Bound(key))]
          /\ deliveries' = Inserted(deliveries, key, Bound(key))
      BY <1>1, <2>2 DEF Radio
    <3>2. call' = [key |-> key, recovered |-> call.recovered, prompt |-> Prefix(Bound(key))]
      BY <3>1, <1>a DEF CallInv, CallShape
    <3>3. /\ key \in DOMAIN deliveries' /\ deliveries'[key] = Bound(key)
          /\ \A k \in DOMAIN ops : k # key =>
               /\ k \in DOMAIN deliveries' <=> k \in DOMAIN deliveries
               /\ k \in DOMAIN deliveries => deliveries'[k] = deliveries[k]
      BY <3>1 DEF Inserted
    <3>4. key \in DOMAIN ops => key \in DOMAIN deliveries /\ Bound(key) = deliveries[key]
      BY <2>2 DEF Bound
    <3>5. \A k \in DOMAIN ops : ops[k].prompt = PromptOf(k)'
      <4> SUFFICES ASSUME NEW k \in DOMAIN ops PROVE ops[k].prompt = PromptOf(k)'
        OBVIOUS
      <4>1. ops[k].prompt = PromptOf(k)
        BY DEF PromptsFit
      <4>2. CASE k = key
        BY <3>3, <3>4, <4>1, <4>2 DEF PromptOf
      <4>3. CASE k # key
        BY <3>3, <4>1, <4>3 DEF PromptOf
      <4> QED BY <4>2, <4>3
    <3>6. call'.key = key /\ call'.prompt = Prefix(Bound(key))
      BY <3>2
    <3> HIDE DEF key
    <3> QED BY <2>0, <3>3, <3>5, <3>6 DEF PromptsFit, PromptOf
  <2> QED BY <2>1, <2>2
<1>2. ASSUME RadioFails PROVE PromptsFit'
  <2>1. PICK pinned \in BOOLEAN : Degrade(pinned)
    BY <1>2 DEF RadioFails
  <2>2. /\ UNCHANGED <<ops, deliveries, call>> /\ pc = "radio"
        /\ \/ pc' = "error"
           \/ pc' = "reserve" /\ call.key \notin DOMAIN deliveries
    BY <2>1 DEF Degrade, ledger
  <2> QED BY <2>2 DEF PromptsFit, PromptOf
<1>3. ASSUME Reserve PROVE PromptsFit'
  <2>0. UNCHANGED <<call, deliveries>> /\ pc = "reserve" /\ call.key \in Keys
        /\ pc' \notin {"radio", "reserve"}
    BY <1>3, <1>a DEF Reserve, CallInv, CallFits, InCall
  <2>1. CASE UNCHANGED ops
    BY <2>0, <2>1 DEF PromptsFit, PromptOf
  <2>2. CASE ~UNCHANGED ops
    <3>1. Inserts(call.key)
      BY <1>3, <2>0, <2>2 DEF Reserve, Inserts
    <3>2. /\ DOMAIN ops' = DOMAIN ops \cup {call.key}
          /\ ops'[call.key].prompt = call.prompt
          /\ \A l \in DOMAIN ops : ops'[l] = ops[l]
      BY <2>0, <3>1, <1>a, InsertEffect
    <3> QED BY <2>0, <3>2 DEF PromptsFit, PromptOf
  <2> QED BY <2>1, <2>2
<1>4. ASSUME RecoverOpen PROVE PromptsFit'
  <2>1. PICK key : \/ Enter(key, TRUE)
                   \/ pc' \in {"apply", "error"}
    BY <1>4 DEF RecoverOpen
  <2>2. UNCHANGED deliveries /\ pc # "reserve"
    BY <1>4 DEF RecoverOpen, ledger
  <2>3. CASE Enter(key, TRUE)
    BY <2>2, <2>3, <1>e
  <2>4. CASE pc' \in {"apply", "error"}
    BY <2>2, <2>4, <1>r
  <2> QED BY <2>1, <2>3, <2>4
<1>5. ASSUME StartTask PROVE PromptsFit'
  <2>1. PICK i \in Ready : Enter(<<i, 0>>, FALSE)
    BY <1>5 DEF StartTask
  <2>2. UNCHANGED deliveries /\ pc # "reserve"
    BY <1>5 DEF StartTask, ledger
  <2> QED BY <2>1, <2>2, <1>e
<1>6. ASSUME Repair PROVE PromptsFit'
  <2>1. UNCHANGED deliveries /\ pc # "reserve"
    BY <1>6 DEF Repair, ledger
  <2>2. CASE Enter(<<call.key[1], 1>>, FALSE)
    BY <2>1, <2>2, <1>e
  <2>3. CASE pc' = "error"
    BY <2>1, <2>3, <1>r
  <2> QED BY <1>6, <2>2, <2>3 DEF Repair
<1>7. ASSUME Finish \/ Baseline \/ BeginAttempt \/ MarkFailed
             \/ (\E a \in {"done", "noted"} : Complete(a))
             \/ ApplyOutcome \/ StoreMentions \/ TaskFails \/ RunFails
      PROVE PromptsFit'
  <2>1. UNCHANGED deliveries /\ pc # "reserve" /\ pc' \notin {"radio", "reserve"}
    BY <1>7 DEF Finish, Baseline, RecordBaseline, BeginAttempt, MarkFailed, Complete,
       ApplyOutcome, StoreMentions, TaskFails, RunFails, Stops, ledger
  <2> QED BY <2>1, <1>r
<1>8. ASSUME PrepareRetry \/ WaitForOperation \/ Ambiguous \/ Cancel
             \/ ClaimOperation \/ ExplicitResume \/ UserResumes \/ Restart
      PROVE PromptsFit'
  <2>1. UNCHANGED deliveries /\ pc # "reserve" /\ pc' \notin {"radio", "reserve"}
    BY <1>8 DEF PrepareRetry, WaitForOperation, Ambiguous, Cancel, ClaimOperation,
       ExplicitResume, Reclaim, UserResumes, Restart, Stops, ledger
  <2> QED BY <2>1, <1>r
<1>9. ASSUME Crash PROVE PromptsFit'
  BY <1>9 DEF Crash, ledger, PromptsFit, PromptOf
<1>10. ASSUME Edit \/ UNCHANGED vars PROVE PromptsFit'
  BY <1>10 DEF Edit, ledger, status, vars, PromptsFit, PromptOf
<1> QED BY <1>1, <1>2, <1>3, <1>4, <1>5, <1>6, <1>7, <1>8, <1>9, <1>10 DEF Next, Step, World

\* A note counted as delivered was in the prompt of the call that was applied,
\* and a call taken up again asks what it asked before, though notes have
\* arrived since: whatever fails or stops between binding and reserving.
THEOREM PromptStaysExact == Spec => []PromptIsExact
<1>1. Init => PromptInv
  BY CallInvInit DEF Init, PromptInv, PromptsFit
<1>2. PromptInv /\ [Next]_vars => PromptInv'
  BY CallInvStep, PromptsStep DEF PromptInv
<1>3. PromptInv => PromptIsExact
  BY DEF PromptInv, PromptsFit, PromptOf, PromptIsExact, NotesReachThePrompt, SameRequest,
     AsksTheSame
<1> QED BY <1>1, <1>2, <1>3, PTL DEF Spec

-----------------------------------------------------------------------------
(* The tables.  What the coroutine relies on between two commits, for a     *)
(* call the loop started (fresh) and for one that a restart left            *)
(* (recovered), and what run, tasks and open call say of each other.        *)

BaselinesFit == DOMAIN baselines \subseteq DOMAIN ops

FreshCall ==
  ~call.recovered =>
    /\ pc \in InCall \ {"apply", "mentions"} => tasks[call.key[1]] = "in_progress"
    /\ pc = "apply" => ops[call.key].st = "completed" /\ tasks[call.key[1]] = "in_progress"
    /\ pc \in {"radio", "reserve", "invalid"} => OpenKeys = {}
    /\ pc = "error" /\ request = "dispatching" => OpenKeys = {}
    /\ pc = "baseline" => call.key \notin DOMAIN baselines

RecoveredCall ==
  pc \in InCall \ {"mentions"} /\ request = "dispatching" /\ call.recovered =>
    /\ tasks[call.key[1]] = "in_progress"
    /\ call.key \in OpenKeys \/ pc \in {"invalid", "error"}

\* Once its request is settled a cycle may rest in any state; before, its status
\* tells what its open call and the task of it are waiting for.
SourceFits ==
  request = "dispatching" =>
    /\ pc \notin {"idle", "down"} => source = "running"
    /\ pc = "idle" => source # "running"
    /\ source \in {"running", "waiting", "interrupted"}
    /\ source = "running" => \A k \in OpenKeys : /\ ops[k].st \in {"prepared", "invoking", "completed"}
                                                 /\ tasks[k[1]] = "in_progress"
    /\ source = "waiting" => \E k \in OpenKeys : ops[k].st = "waiting" /\ tasks[k[1]] = "waiting"
    /\ source = "interrupted" => \A k \in OpenKeys : /\ ops[k].st = "ambiguous"
                                                     /\ tasks[k[1]] = "pending"

TablesInv ==
  /\ CallInv /\ BaselinesFit /\ FreshCall /\ RecoveredCall /\ SourceFits /\ AppliedIsCompleted

LEMMA BaselinesStep == CallInv /\ BaselinesFit /\ [Next]_vars => BaselinesFit'
<1> SUFFICES ASSUME CallInv, BaselinesFit, [Next]_vars PROVE BaselinesFit'
  OBVIOUS
<1>1. DOMAIN ops \subseteq DOMAIN ops'
  BY OpsSteps, OneOpenStep DEF CallInv
<1>2. CASE UNCHANGED baselines
  BY <1>1, <1>2 DEF BaselinesFit
<1>3. CASE Baseline
  <2>1. call.key \in DOMAIN ops
    BY <1>3 DEF Baseline, CallInv, CallFits, CallIsAt
  <2>2. DOMAIN baselines' \subseteq DOMAIN baselines \cup {call.key}
    BY <1>3 DEF Baseline, RecordBaseline, Inserted
  <2> QED BY <1>1, <2>1, <2>2 DEF BaselinesFit
<1>4. UNCHANGED baselines \/ Baseline
  BY DEF Next, Step, World, vars, ledger, RecoverOpen, StartTask, Finish, Radio, Reserve,
     BeginAttempt, MarkFailed, Repair, Complete, ApplyOutcome, StoreMentions, TaskFails, RunFails,
     RadioFails, Degrade, PrepareRetry, WaitForOperation, Ambiguous, Edit, Cancel, Crash,
     ClaimOperation, ExplicitResume, Reclaim, UserResumes, Restart
<1> QED BY <1>2, <1>3, <1>4

\* The one open call moves: it is still the one, or there is none.
LEMMA MovedOpen ==
  ASSUME OneOpen, NEW k \in OpenKeys, NEW to, Moved(k, to)
  PROVE  OpenKeys' = IF to \in OpenOp THEN {k} ELSE {}
BY DEF OneOpen, Moved, OpenKeys

-----------------------------------------------------------------------------
(* What is applied is completed.                                           *)

Applied(k) == k \in DOMAIN ops /\ ops[k].st = "applied"
IsCompleted(i) == tasks[i] = "completed"

\* No step but the applying one changes what is applied.
LEMMA AppliedKept ==
  ASSUME CallInv, [Next]_vars, ~ApplyOutcome
  PROVE  \A k \in Keys : Applied(k)' <=> Applied(k)
<1> USE DEF Applied
<1>1. OpsStep
  BY OpsSteps
<1>2. CASE UNCHANGED ops
  BY <1>2
<1>3. ASSUME NEW l \in Keys, Inserts(l) PROVE \A k \in Keys : Applied(k)' <=> Applied(k)
  <2>1. /\ DOMAIN ops' = DOMAIN ops \cup {l} /\ l \notin DOMAIN ops /\ ops'[l].st = "prepared"
        /\ \A k \in DOMAIN ops : ops'[k] = ops[k]
    BY <1>3, InsertEffect DEF Inserts, CallInv
  <2> QED BY <2>1
<1>4. ASSUME NEW l \in DOMAIN ops, NEW to, Moved(l, to), ops[l].st # "applied", to # "applied"
      PROVE  \A k \in Keys : Applied(k)' <=> Applied(k)
  BY <1>4 DEF Moved
<1>5. CASE Reconciles
  <2>1. \A k \in DOMAIN ops : Reconciled(k) = "applied" <=> ops[k].st = "applied"
    BY DEF Reconciled, OpenKeys, OpenOp
  <2> QED BY <2>1, <1>5, ReconcileEffect DEF CallInv
<1>6. \A st, to : <<st, to>> \in Transitions => st # "applied"
  BY DEF Transitions
<1> QED BY <1>1, <1>2, <1>3, <1>4, <1>5, <1>6 DEF OpsStep

\* Nor does another step complete a task, or take that back.
LEMMA CompletedKept ==
  ASSUME CallInv, FreshCall, [Next]_vars, ~ApplyOutcome
  PROVE  \A i \in 1 .. Tasks : IsCompleted(i)' <=> IsCompleted(i)
<1> USE DEF IsCompleted
<1> DEFINE Goal == \A i \in 1 .. Tasks : IsCompleted(i)' <=> IsCompleted(i)
<1>u. UNCHANGED tasks => Goal
  OBVIOUS
<1>w. ASSUME NEW i, NEW st, tasks' = [tasks EXCEPT ![i] = st], st # "completed",
             tasks[i] # "completed"
      PROVE  Goal
  BY <1>w DEF CallInv, TasksShape
<1>i. ASSUME NEW sts, tasks' = Interrupted(sts), "completed" \notin sts PROVE Goal
  BY <1>i DEF CallInv, TasksShape, Interrupted
<1>p. ASSUME NEW st, st # "completed",
             tasks' = [i \in DOMAIN tasks |-> IF i \in InProgress THEN st ELSE tasks[i]]
      PROVE Goal
  BY <1>p DEF CallInv, TasksShape, InProgress
<1> HIDE DEF Goal
<1>1. ASSUME StartTask PROVE Goal
  <2>1. PICK i \in Ready : tasks' = [tasks EXCEPT ![i] = "in_progress"]
    BY <1>1 DEF StartTask
  <2>2. tasks[i] = "pending"
    BY DEF Ready
  <2> QED BY <2>1, <2>2, <1>w
<1>2. ASSUME TaskFails PROVE Goal
  <2>1. tasks[call.key[1]] = "in_progress"
    BY <1>2 DEF TaskFails, FreshCall, InCall
  <2> QED BY <1>2, <2>1, <1>w DEF TaskFails
<1>3. ASSUME RunFails \/ Cancel PROVE Goal
  BY <1>3, <1>p DEF RunFails, Cancel
<1>4. ASSUME Ambiguous \/ Restart PROVE Goal
  <2>1. UNCHANGED tasks \/ \E sts : tasks' = Interrupted(sts) /\ "completed" \notin sts
    <3>1. UNCHANGED tasks \/ tasks' = Interrupted({"in_progress", "waiting"})
            \/ tasks' = Interrupted({"in_progress"})
      BY <1>4 DEF Ambiguous, Restart
    <3> QED BY <3>1
  <2> QED BY <2>1, <1>u, <1>i
<1>5. ASSUME WaitForOperation PROVE Goal
  BY <1>5, <1>u, <1>w DEF WaitForOperation
<1>6. ASSUME ClaimOperation \/ ExplicitResume PROVE Goal
  <2>1. PICK k \in OpenKeys : /\ tasks[k[1]] \in {"waiting", "pending"}
                              /\ tasks' = [tasks EXCEPT ![k[1]] = "in_progress"]
    BY <1>6 DEF ClaimOperation, ExplicitResume, Reclaim
  <2> QED BY <2>1, <1>w
<1>7. ASSUME RecoverOpen \/ Finish \/ Radio \/ Reserve \/ Baseline \/ BeginAttempt \/ MarkFailed
             \/ Repair \/ (\E a \in {"done", "noted"} : Complete(a)) \/ StoreMentions
             \/ RadioFails \/ PrepareRetry \/ Edit \/ Crash \/ UserResumes \/ UNCHANGED vars
      PROVE UNCHANGED tasks
  BY <1>7 DEF RecoverOpen, Finish, Radio, Reserve, Baseline, BeginAttempt, MarkFailed, Repair,
     Complete, StoreMentions, RadioFails, Degrade, PrepareRetry, Edit, Crash, UserResumes,
     status, vars
<1>8. Goal
  BY <1>1, <1>2, <1>3, <1>4, <1>5, <1>6, <1>7, <1>u DEF Next, Step, World
<1> QED BY <1>8 DEF Goal

LEMMA AppliedStep ==
  CallInv /\ FreshCall /\ AppliedIsCompleted /\ [Next]_vars => AppliedIsCompleted'
<1> SUFFICES ASSUME CallInv, FreshCall, AppliedIsCompleted, [Next]_vars
             PROVE AppliedIsCompleted'
  OBVIOUS
<1>d. DOMAIN tasks = 1 .. Tasks /\ DOMAIN tasks' = 1 .. Tasks
  BY TasksStep DEF CallInv, TasksShape
<1>k. \A i \in 1 .. Tasks, c \in {0, 1} : <<i, c>> \in Keys
  BY DEF Keys
<1>h. \A i \in 1 .. Tasks : IsCompleted(i) <=> \E c \in {0, 1} : Applied(<<i, c>>)
  BY <1>d DEF AppliedIsCompleted, IsCompleted, Applied
<1>g. SUFFICES \A i \in 1 .. Tasks : IsCompleted(i)' <=> \E c \in {0, 1} : Applied(<<i, c>>)'
  BY <1>d DEF AppliedIsCompleted, IsCompleted, Applied
<1>1. CASE ~ApplyOutcome
  BY <1>1, <1>h, <1>k, AppliedKept, CompletedKept
<1>2. CASE ApplyOutcome
  <2>1. CASE UNCHANGED <<ops, tasks>>
    BY <2>1, <1>h DEF Applied, IsCompleted
  <2>2. CASE /\ Move(call.key, "completed", "applied")
             /\ tasks' = [tasks EXCEPT ![call.key[1]] = "completed"]
    <3>1. call.key \in Keys /\ call.key \in DOMAIN ops
      BY <1>2 DEF ApplyOutcome, CallInv, CallFits, CallIsAt, InCall
    <3>2. PICK t \in 1 .. Tasks, d \in {0, 1} : call.key = <<t, d>>
      BY <3>1 DEF Keys
    <3>3. Moved(<<t, d>>, "applied")
      BY <2>2, <3>1, <3>2, MoveEffect DEF CallInv, OpStatus
    <3>4. /\ Applied(<<t, d>>)'
          /\ \A i \in 1 .. Tasks, c \in {0, 1} : i # t => (Applied(<<i, c>>)' <=> Applied(<<i, c>>))
      BY <3>3 DEF Moved, Applied
    <3>5. \A i \in 1 .. Tasks : IsCompleted(i)' <=> i = t \/ IsCompleted(i)
      BY <2>2, <3>2, <1>d DEF IsCompleted
    <3> QED BY <1>h, <3>4, <3>5
  <2> QED BY <1>2, <2>1, <2>2 DEF ApplyOutcome
<1> QED BY <1>1, <1>2

-----------------------------------------------------------------------------
(* A fresh call is the only one, and its task is in progress.              *)

LEMMA FreshStep == TablesInv /\ [Next]_vars => FreshCall'
<1> SUFFICES ASSUME TablesInv, [Next]_vars PROVE FreshCall'
  OBVIOUS
<1> USE DEF TablesInv
<1>c. CallInv'
  BY CallInvStep
<1>o. OpenKeys \subseteq DOMAIN ops /\ \A k \in OpenKeys : OpenKeys = {k}
  BY DEF OpenKeys, CallInv, OneOpen
<1>s. {"prepared", "invoking", "failed", "completed"} \subseteq OpStatus
      /\ {"prepared", "invoking", "completed"} \subseteq OpenOp /\ "failed" \notin OpenOp
  BY DEF OpStatus, OpenOp
<1>at. pc \in {"baseline", "begin", "invoking"} => call.key \in OpenKeys
  BY <1>s DEF OpenKeys, CallInv, CallFits, CallIsAt
\* between its calls the coroutine holds none
<1>l. ASSUME pc' \in {"loop", "idle", "down", "mentions"} PROVE FreshCall'
  BY <1>l DEF FreshCall, InCall
\* a recovered call is none of its business
<1>r. ASSUME call'.recovered PROVE FreshCall'
  BY <1>r DEF FreshCall
<1>1. ASSUME RecoverOpen PROVE FreshCall'
  <2>1. PICK key \in OpenKeys : call' = CallOf(key, TRUE)
    <3> DEFINE first == CHOOSE k \in OpenKeys : TRUE
    <3>1. first \in OpenKeys /\ call' = CallOf(first, TRUE)
      BY <1>1 DEF RecoverOpen, Enter
    <3> HIDE DEF first
    <3> QED BY <3>1
  <2> QED BY <2>1, <1>r DEF CallOf
<1>2. ASSUME StartTask PROVE FreshCall'
  <2>1. PICK i \in Ready : Enter(<<i, 0>>, FALSE) /\ tasks' = [tasks EXCEPT ![i] = "in_progress"]
    BY <1>2 DEF StartTask
  <2>2. tasks'[i] = "in_progress" /\ call'.key[1] = i /\ pc' = "radio"
    BY <2>1 DEF Enter, CallOf, Ready
  <2>3. OpenKeys' = {}
    BY <1>2 DEF StartTask, ledger, OpenKeys
  <2> QED BY <2>2, <2>3 DEF FreshCall, InCall
<1>3. ASSUME Finish \/ StoreMentions \/ TaskFails \/ RunFails \/ Ambiguous \/ Cancel \/ Crash
             \/ Restart \/ ClaimOperation \/ ExplicitResume \/ UserResumes
      PROVE FreshCall'
  BY <1>3, <1>l DEF Finish, StoreMentions, TaskFails, RunFails, Ambiguous, Cancel, Crash, Stops,
     Restart, ClaimOperation, ExplicitResume, Reclaim, UserResumes
<1>4. ASSUME Radio \/ RadioFails PROVE FreshCall'
  <2>1. /\ pc = "radio" /\ pc' \in {"reserve", "error"} /\ UNCHANGED <<ops, baselines, tasks>>
        /\ call'.key = call.key /\ call'.recovered = call.recovered
    <3>1. CASE Radio
      <4>1. \/ UNCHANGED call
            \/ call' = [call EXCEPT !.prompt = Prefix(Bound(call.key))]
        BY <3>1 DEF Radio
      <4>2. call'.key = call.key /\ call'.recovered = call.recovered
        BY <4>1 DEF CallInv, CallShape
      <4> QED BY <3>1, <4>2 DEF Radio, status
    <3>2. CASE RadioFails
      BY <3>2 DEF RadioFails, Degrade, ledger, status
    <3> QED BY <1>4, <3>1, <3>2
  <2> QED BY <2>1 DEF FreshCall, OpenKeys, InCall
<1>5. ASSUME Reserve PROVE FreshCall'
  <2>0. UNCHANGED <<baselines, tasks, call>> /\ pc = "reserve"
    BY <1>5 DEF Reserve, status
  <2>1. CASE ~call.recovered
    <3>1. OpenKeys = {} /\ tasks[call.key[1]] = "in_progress"
      BY <2>0, <2>1 DEF FreshCall, InCall
    <3>2. CASE call.key \notin DOMAIN ops
      <4>1. pc' = "baseline" /\ call.key \notin DOMAIN baselines
        BY <1>5, <3>1, <3>2 DEF Reserve, BaselinesFit
      <4> QED BY <2>0, <3>1, <4>1 DEF FreshCall, InCall
    <3>3. CASE call.key \in DOMAIN ops
      <4>1. UNCHANGED ops /\ ops[call.key].st \notin OpenOp
        BY <1>5, <3>1, <3>3 DEF Reserve, OpenKeys
      <4>2. ops[call.key].st # "applied"
        <5>1. PICK i \in 1 .. Tasks, c \in {0, 1} : call.key = <<i, c>>
          BY <2>0 DEF CallInv, CallFits, InCall, Keys
        <5>2. tasks[i] # "completed" /\ i \in DOMAIN tasks
          BY <3>1, <5>1 DEF CallInv, TasksShape
        <5> QED BY <3>3, <5>1, <5>2 DEF AppliedIsCompleted
      <4>3. pc' = "error"
        BY <1>5, <3>3, <4>1, <4>2, <1>s DEF Reserve
      <4> QED BY <2>0, <3>1, <4>1, <4>3 DEF FreshCall, InCall, OpenKeys
    <3> QED BY <3>2, <3>3
  <2> QED BY <2>0, <2>1, <1>r
<1>6. ASSUME Baseline PROVE FreshCall'
  <2>0. UNCHANGED <<ops, tasks, call>> /\ pc = "baseline"
    BY <1>6 DEF Baseline, status
  <2>1. CASE ~call.recovered
    <3>1. call.key \notin DOMAIN baselines /\ tasks[call.key[1]] = "in_progress"
      BY <2>0, <2>1 DEF FreshCall, InCall
    <3>2. pc' = "begin"
      BY <1>6, <3>1 DEF Baseline, RecordBaseline
    <3> QED BY <2>0, <3>1, <3>2 DEF FreshCall
  <2> QED BY <2>0, <2>1, <1>r
<1>7. ASSUME BeginAttempt \/ PrepareRetry PROVE FreshCall'
  <2>1. UNCHANGED <<tasks, call>> /\ pc \in {"begin", "invoking"} /\ pc' \in {"begin", "invoking"}
    BY <1>7 DEF BeginAttempt, PrepareRetry, status
  <2> QED BY <2>1 DEF FreshCall, InCall
<1>8. ASSUME WaitForOperation PROVE FreshCall'
  <2>1. CASE pc' = "idle"
    BY <2>1, <1>l
  <2>2. CASE /\ UNCHANGED <<ops, tasks, source, call>> /\ pc' = "error"
             /\ ~(/\ source = "running" /\ tasks[call.key[1]] = "in_progress"
                  /\ request = "dispatching" /\ OnlyOpen(call.key))
    <3>1. pc = "invoking" /\ UNCHANGED request
      BY <1>8 DEF WaitForOperation
    <3>2. OnlyOpen(call.key)
      BY <3>1, <1>at, <1>o DEF OnlyOpen
    <3>3. request = "dispatching" => source = "running"
      BY <3>1 DEF SourceFits
    <3> QED BY <2>2, <3>1, <3>2, <3>3 DEF FreshCall, InCall
  <2> QED BY <1>8, <2>1, <2>2 DEF WaitForOperation, Stops
<1>9. ASSUME NEW a \in {"done", "noted"}, Complete(a) PROVE FreshCall'
  <2>1. UNCHANGED <<tasks, call>> /\ pc = "invoking" /\ pc' = "apply"
    BY <1>9 DEF Complete, status
  <2>2. ops'[call.key].st = "completed"
    BY <1>9, CompleteEffect DEF Moved
  <2> QED BY <2>1, <2>2 DEF FreshCall, InCall
<1>10. ASSUME MarkFailed PROVE FreshCall'
  <2>1. UNCHANGED <<tasks, call>> /\ pc = "invoking" /\ pc' = "invalid"
        /\ Move(call.key, "invoking", "failed")
    BY <1>10 DEF MarkFailed, status
  <2>2. OpenKeys' = {}
    <3>1. Moved(call.key, "failed")
      BY <2>1, <1>at, <1>o, <1>s, MoveEffect DEF CallInv
    <3> QED BY <3>1, <2>1, <1>at, <1>s, MovedOpen DEF CallInv
  <2> QED BY <2>1, <2>2 DEF FreshCall, InCall
<1>11. ASSUME Repair PROVE FreshCall'
  <2>0. UNCHANGED <<ops, tasks>> /\ pc = "invalid"
    BY <1>11 DEF Repair, ledger, status
  <2>1. CASE UNCHANGED call /\ pc' = "error"
    BY <2>0, <2>1 DEF FreshCall, OpenKeys, InCall
  <2>2. CASE ~call.recovered /\ Enter(<<call.key[1], 1>>, FALSE)
    <3>1. call'.key[1] = call.key[1] /\ pc' = "radio"
      BY <2>2 DEF Enter, CallOf
    <3> QED BY <2>0, <2>2, <3>1 DEF FreshCall, OpenKeys, InCall
  <2> QED BY <1>11, <2>1, <2>2 DEF Repair
<1>12. ASSUME ApplyOutcome PROVE FreshCall'
  <2>1. CASE ~call.recovered
    <3>1. ops[call.key].st = "completed" /\ tasks[call.key[1]] = "in_progress"
      BY <1>12, <2>1 DEF ApplyOutcome, FreshCall
    <3>2. pc' = "mentions"
      BY <1>12, <3>1 DEF ApplyOutcome
    <3> QED BY <3>2, <1>l
  <2>2. UNCHANGED call
    BY <1>12 DEF ApplyOutcome
  <2> QED BY <2>1, <2>2, <1>r
<1>13. ASSUME Edit \/ UNCHANGED vars PROVE FreshCall'
  BY <1>13 DEF Edit, ledger, status, vars, FreshCall, OpenKeys
<1> QED BY <1>1, <1>2, <1>3, <1>4, <1>5, <1>6, <1>7, <1>8, <1>9, <1>10, <1>11, <1>12, <1>13
        DEF Next, Step, World

-----------------------------------------------------------------------------
(* A recovered call is the open one until it is given up.                  *)

LEMMA RecoveredStep == TablesInv /\ [Next]_vars => RecoveredCall'
<1> SUFFICES ASSUME TablesInv, [Next]_vars PROVE RecoveredCall'
  OBVIOUS
<1> USE DEF TablesInv
<1>s. {"prepared", "invoking", "waiting", "completed"} \subseteq OpenOp
      /\ {"prepared", "invoking", "waiting", "failed", "completed"} \subseteq OpStatus
  BY DEF OpStatus, OpenOp
<1>at. pc \in {"baseline", "begin", "invoking"} => call.key \in OpenKeys
  BY <1>s DEF OpenKeys, CallInv, CallFits, CallIsAt
<1>l. ASSUME pc' \in {"loop", "idle", "down", "mentions"} PROVE RecoveredCall'
  BY <1>l DEF RecoveredCall, InCall
<1>f. ASSUME ~call'.recovered PROVE RecoveredCall'
  BY <1>f DEF RecoveredCall
\* the same call, still open or given up
<1>k. ASSUME pc \in InCall \ {"mentions"}, UNCHANGED <<tasks, request>>, call'.key = call.key,
             call'.recovered = call.recovered,
             call.key \in OpenKeys => call.key \in OpenKeys' \/ pc' \in {"invalid", "error"},
             pc \in {"invalid", "error"} => pc' = "error"
      PROVE RecoveredCall'
  BY <1>k DEF RecoveredCall
<1>1. ASSUME RecoverOpen PROVE RecoveredCall'
  <2>1. PICK key \in OpenKeys : call' = CallOf(key, TRUE)
    <3> DEFINE first == CHOOSE k \in OpenKeys : TRUE
    <3>1. first \in OpenKeys /\ call' = CallOf(first, TRUE)
      BY <1>1 DEF RecoverOpen, Enter
    <3> HIDE DEF first
    <3> QED BY <3>1
  <2>2. pc = "loop" /\ UNCHANGED <<ops, tasks, request, source>>
    BY <1>1 DEF RecoverOpen, ledger, status
  <2>3. request = "dispatching" => tasks[key[1]] = "in_progress"
    BY <2>2 DEF SourceFits
  <2> QED BY <2>1, <2>2, <2>3 DEF RecoveredCall, OpenKeys, CallOf
<1>2. ASSUME StartTask PROVE RecoveredCall'
  BY <1>2, <1>f DEF StartTask, Enter, CallOf
<1>3. ASSUME Finish \/ StoreMentions \/ TaskFails \/ RunFails \/ Ambiguous \/ Cancel \/ Crash
             \/ Restart \/ ClaimOperation \/ ExplicitResume \/ UserResumes
      PROVE RecoveredCall'
  BY <1>3, <1>l DEF Finish, StoreMentions, TaskFails, RunFails, Ambiguous, Cancel, Crash, Stops,
     Restart, ClaimOperation, ExplicitResume, Reclaim, UserResumes
<1>4. ASSUME Radio PROVE RecoveredCall'
  <2>1. call'.key = call.key /\ call'.recovered = call.recovered
    <3>1. \/ UNCHANGED call
          \/ call' = [call EXCEPT !.prompt = Prefix(Bound(call.key))]
      BY <1>4 DEF Radio
    <3> QED BY <3>1 DEF CallInv, CallShape
  <2> QED BY <1>4, <2>1, <1>k DEF Radio, status, OpenKeys, InCall
<1>5. ASSUME RadioFails \/ Baseline \/ Edit \/ UNCHANGED vars PROVE RecoveredCall'
  <2>1. CASE Edit \/ UNCHANGED vars
    BY <2>1 DEF Edit, ledger, status, vars, RecoveredCall, OpenKeys
  <2>2. CASE RadioFails \/ Baseline
    <3>1. UNCHANGED <<ops, tasks, request, call>> /\ pc \in {"radio", "baseline"}
      BY <2>2 DEF RadioFails, Degrade, Baseline, ledger, status
    <3> QED BY <3>1, <1>k DEF OpenKeys, InCall
  <2> QED BY <1>5, <2>1, <2>2
<1>6. ASSUME Reserve PROVE RecoveredCall'
  <2>1. pc = "reserve" /\ UNCHANGED <<tasks, request, call>>
    BY <1>6 DEF Reserve, status
  <2>2. call.key \in OpenKeys => call.key \in OpenKeys'
    BY <1>6 DEF Reserve, OpenKeys
  <2> QED BY <2>1, <2>2, <1>k DEF InCall
<1>7. ASSUME BeginAttempt \/ PrepareRetry \/ \E a \in {"done", "noted"} : Complete(a)
      PROVE RecoveredCall'
  <2>1. pc \in {"begin", "invoking"} /\ UNCHANGED <<tasks, request, call>>
    BY <1>7 DEF BeginAttempt, PrepareRetry, Complete, status
  <2>2. \E to \in {"prepared", "invoking", "completed"} : Moved(call.key, to)
    <3>1. CASE BeginAttempt
      BY <3>1, BeginEffect
    <3>2. CASE PrepareRetry
      <4>1. Move(call.key, "invoking", "prepared") /\ call.key \in DOMAIN ops
        BY <3>2, <1>at DEF PrepareRetry, OpenKeys
      <4> QED BY <4>1, <1>s, MoveEffect DEF CallInv
    <3>3. CASE \E a \in {"done", "noted"} : Complete(a)
      BY <3>3, CompleteEffect
    <3> QED BY <1>7, <3>1, <3>2, <3>3
  <2>3. call.key \in OpenKeys'
    BY <2>1, <2>2, <1>at, <1>s, MovedOpen DEF CallInv
  <2> QED BY <2>1, <2>3, <1>k DEF InCall
<1>8. ASSUME WaitForOperation PROVE RecoveredCall'
  <2>1. CASE pc' = "idle"
    BY <2>1, <1>l
  <2>2. CASE UNCHANGED <<ops, tasks, source, call>> /\ pc' = "error"
    BY <1>8, <2>2, <1>k DEF WaitForOperation, InCall
  <2> QED BY <1>8, <2>1, <2>2 DEF WaitForOperation, Stops
<1>9. ASSUME MarkFailed PROVE RecoveredCall'
  BY <1>9, <1>k DEF MarkFailed, status, InCall
<1>10. ASSUME Repair PROVE RecoveredCall'
  <2>1. CASE UNCHANGED call /\ pc' = "error"
    BY <1>10, <2>1, <1>k DEF Repair, status, InCall
  <2>2. CASE Enter(<<call.key[1], 1>>, FALSE)
    BY <2>2, <1>f DEF Enter, CallOf
  <2> QED BY <1>10, <2>1, <2>2 DEF Repair
<1>11. ASSUME ApplyOutcome PROVE RecoveredCall'
  <2>1. CASE pc' = "mentions"
    BY <2>1, <1>l
  <2>2. CASE pc' = "error" /\ UNCHANGED <<ops, tasks>>
    BY <1>11, <2>2, <1>k DEF ApplyOutcome, InCall
  <2> QED BY <1>11, <2>1, <2>2 DEF ApplyOutcome
<1> QED BY <1>1, <1>2, <1>3, <1>4, <1>5, <1>6, <1>7, <1>8, <1>9, <1>10, <1>11
        DEF Next, Step, World

-----------------------------------------------------------------------------
(* Run, tasks and open call agree while the request is not settled.        *)

LEMMA SourceStep == TablesInv /\ [Next]_vars => SourceFits'
<1> SUFFICES ASSUME TablesInv, [Next]_vars, request' = "dispatching" PROVE SourceFits'
  BY DEF SourceFits
<1> USE DEF TablesInv
<1>s. /\ {"prepared", "invoking", "waiting", "completed", "ambiguous"} \subseteq OpenOp
      /\ OpenOp \subseteq OpStatus /\ "failed" \notin OpenOp /\ "applied" \notin OpenOp
      /\ {"failed", "applied"} \subseteq OpStatus
  BY DEF OpStatus, OpenOp
<1>o. OpenKeys \subseteq DOMAIN ops /\ \A k \in OpenKeys : OpenKeys = {k}
  BY DEF OpenKeys, CallInv, OneOpen
<1>at. pc \in {"baseline", "begin", "invoking"} => call.key \in OpenKeys
  BY <1>s DEF OpenKeys, CallInv, CallFits, CallIsAt
<1>t. \A k \in OpenKeys : k[1] \in 1 .. Tasks /\ DOMAIN tasks = 1 .. Tasks
  BY <1>o DEF CallInv, OpsShape, Keys, TasksShape
<1>d. request = "dispatching"
  BY DEF Next, Step, World, vars, status, RecoverOpen, StartTask, Finish, Radio, Reserve,
     Baseline, BeginAttempt, MarkFailed, Repair, Complete, ApplyOutcome, StoreMentions, TaskFails,
     RunFails, RadioFails, Degrade, PrepareRetry, WaitForOperation, Ambiguous, Edit, Cancel, Crash,
     ClaimOperation, ExplicitResume, Reclaim, UserResumes, Restart, Settles
\* the coroutine goes on and leaves rows and tasks alone
<1>u. ASSUME UNCHANGED <<ops, tasks, source>>, pc \notin {"idle", "down"} \/ UNCHANGED pc,
             pc' # "idle" \/ UNCHANGED pc
      PROVE SourceFits'
  BY <1>d, <1>u DEF SourceFits, OpenKeys
\* no call is open
<1>n. ASSUME OpenKeys' = {}, source' = "running", pc' # "idle" PROVE SourceFits'
  BY <1>n DEF SourceFits
\* the open call is under way
<1>w. ASSUME NEW k, OpenKeys' = {k}, ops'[k].st \in {"prepared", "invoking", "completed"},
             tasks'[k[1]] = "in_progress", source' = "running", pc' # "idle"
      PROVE SourceFits'
  BY <1>w DEF SourceFits
<1>1. ASSUME RecoverOpen \/ Radio \/ Baseline \/ Repair \/ StoreMentions \/ RadioFails
             \/ Edit \/ Crash \/ UNCHANGED vars
      PROVE SourceFits'
  <2>1. /\ UNCHANGED <<ops, tasks, source>>
        /\ pc \notin {"idle", "down"} \/ UNCHANGED pc \/ pc' = "down"
        /\ pc' # "idle" \/ UNCHANGED pc
    BY <1>1 DEF RecoverOpen, Radio, Baseline, RecordBaseline, Repair, Enter, StoreMentions,
       RadioFails, Degrade, Edit, Crash, vars, ledger, status
  <2>2. CASE pc' = "down"
    BY <2>1, <2>2, <1>d DEF SourceFits, OpenKeys
  <2> QED BY <2>1, <2>2, <1>u
<1>2. ASSUME StartTask PROVE SourceFits'
  <2>1. OpenKeys' = {} /\ source' = source /\ pc = "loop" /\ pc' = "radio"
    BY <1>2 DEF StartTask, Enter, ledger, OpenKeys
  <2> QED BY <2>1, <1>n, <1>d DEF SourceFits
<1>3. ASSUME Finish \/ RunFails \/ Cancel PROVE FALSE
  BY <1>3 DEF Finish, RunFails, Cancel, Settles
<1>4. ASSUME Reserve PROVE SourceFits'
  <2>1. pc = "reserve" /\ UNCHANGED <<tasks, source, call>> /\ pc' # "idle"
    BY <1>4 DEF Reserve, status
  <2>2. CASE UNCHANGED ops
    BY <2>1, <2>2, <1>u
  <2>3. CASE ~UNCHANGED ops
    <3>1. call.key \in Keys /\ Inserts(call.key)
      BY <1>4, <2>1, <2>3 DEF Reserve, Inserts, CallInv, CallFits, InCall
    <3>2. OpenKeys' = {call.key} /\ ops'[call.key].st = "prepared"
      <4>1. /\ DOMAIN ops' = DOMAIN ops \cup {call.key} /\ ops'[call.key].st = "prepared"
            /\ OpenKeys = {} /\ \A l \in DOMAIN ops : ops'[l] = ops[l]
        BY <3>1, InsertEffect DEF Inserts, CallInv
      <4> QED BY <4>1, <1>s DEF OpenKeys
    <3>3. tasks[call.key[1]] = "in_progress"
      BY <2>1, <1>d, <3>1 DEF FreshCall, RecoveredCall, InCall, Inserts
    <3>4. source = "running"
      BY <2>1, <1>d DEF SourceFits
    <3> QED BY <2>1, <3>2, <3>3, <3>4, <1>w
  <2> QED BY <2>2, <2>3
<1>5. ASSUME BeginAttempt \/ PrepareRetry \/ \E a \in {"done", "noted"} : Complete(a)
      PROVE SourceFits'
  <2>1. pc \in {"begin", "invoking"} /\ pc' # "idle" /\ UNCHANGED <<tasks, source>>
    BY <1>5 DEF BeginAttempt, PrepareRetry, Complete, status
  <2>2. PICK to \in {"prepared", "invoking", "completed"} : Moved(call.key, to)
    <3>1. CASE BeginAttempt
      BY <3>1, BeginEffect
    <3>2. CASE PrepareRetry
      <4>1. Move(call.key, "invoking", "prepared") /\ call.key \in DOMAIN ops
        BY <3>2, <1>at, <1>o DEF PrepareRetry
      <4> QED BY <4>1, <1>s, MoveEffect DEF CallInv
    <3>3. CASE \E a \in {"done", "noted"} : Complete(a)
      BY <3>3, CompleteEffect
    <3> QED BY <1>5, <3>1, <3>2, <3>3
  <2>3. OpenKeys' = {call.key} /\ ops'[call.key].st = to
    BY <2>1, <2>2, <1>at, <1>s, MovedOpen DEF CallInv, Moved
  <2>4. source = "running" /\ tasks[call.key[1]] = "in_progress"
    BY <2>1, <1>d, <1>at DEF SourceFits
  <2> QED BY <2>1, <2>2, <2>3, <2>4, <1>w
<1>6. ASSUME MarkFailed PROVE SourceFits'
  <2>1. pc = "invoking" /\ pc' = "invalid" /\ UNCHANGED source
        /\ Move(call.key, "invoking", "failed") /\ call.key \in OpenKeys
    BY <1>6, <1>at DEF MarkFailed, status
  <2>2. Moved(call.key, "failed")
    BY <2>1, <1>o, <1>s, MoveEffect DEF CallInv
  <2>3. OpenKeys' = {}
    BY <2>1, <2>2, <1>s, MovedOpen DEF CallInv
  <2> QED BY <2>1, <2>3, <1>d, <1>n DEF SourceFits
<1>7. ASSUME WaitForOperation PROVE SourceFits'
  <2> DEFINE i == call.key[1]
  <2>0. pc = "invoking" /\ call.key \in OpenKeys
    BY <1>7, <1>at DEF WaitForOperation
  <2>1. CASE UNCHANGED <<ops, tasks, source>> /\ pc' = "error"
    BY <2>0, <2>1, <1>u
  <2>2. CASE /\ Move(call.key, "invoking", "waiting") /\ pc' = "idle"
             /\ tasks' = [tasks EXCEPT ![i] = "waiting"] /\ source' = "waiting"
    <3>1. Moved(call.key, "waiting")
      BY <2>0, <2>2, <1>o, <1>s, MoveEffect DEF CallInv
    <3>2. OpenKeys' = {call.key} /\ ops'[call.key].st = "waiting"
      BY <2>0, <3>1, <1>s, MovedOpen DEF CallInv, Moved
    <3>3. tasks'[call.key[1]] = "waiting"
      BY <2>0, <2>2, <1>t
    <3> QED BY <2>2, <3>2, <3>3 DEF SourceFits
  <2> QED BY <1>7, <2>1, <2>2 DEF WaitForOperation, Stops
<1>8. ASSUME Ambiguous PROVE SourceFits'
  <2>1. /\ pc = "invoking" /\ call.key \in OpenKeys /\ Move(call.key, "invoking", "ambiguous")
        /\ pc' = "idle" /\ source' = "interrupted"
        /\ tasks' = Interrupted({"in_progress", "waiting"})
    BY <1>8, <1>at DEF Ambiguous, Stops
  <2>2. Moved(call.key, "ambiguous")
    BY <2>1, <1>o, <1>s, MoveEffect DEF CallInv
  <2>3. OpenKeys' = {call.key} /\ ops'[call.key].st = "ambiguous"
    BY <2>1, <2>2, <1>s, MovedOpen DEF CallInv, Moved
  <2>4. tasks[call.key[1]] = "in_progress"
    BY <2>1, <1>d DEF SourceFits
  <2>5. tasks'[call.key[1]] = "pending"
    BY <2>1, <2>4, <1>t DEF Interrupted
  <2> QED BY <2>1, <2>3, <2>5 DEF SourceFits
<1>9. ASSUME ApplyOutcome PROVE SourceFits'
  <2>0. pc = "apply" /\ pc' \in {"mentions", "error"} /\ UNCHANGED source
    BY <1>9 DEF ApplyOutcome
  <2>1. CASE UNCHANGED <<ops, tasks>>
    BY <2>0, <2>1, <1>u
  <2>2. CASE Move(call.key, "completed", "applied")
    <3>1. call.key \in OpenKeys
      BY <2>0, <2>2, <1>s DEF Move, OpenKeys, CallInv, CallFits, CallIsAt
    <3>2. Moved(call.key, "applied")
      BY <2>2, <3>1, <1>o, <1>s, MoveEffect DEF CallInv
    <3>3. OpenKeys' = {}
      BY <3>1, <3>2, <1>s, MovedOpen DEF CallInv
    <3> QED BY <2>0, <3>3, <1>d, <1>n DEF SourceFits
  <2> QED BY <1>9, <2>1, <2>2 DEF ApplyOutcome
<1>10. ASSUME TaskFails PROVE SourceFits'
  <2>1. pc = "error" /\ ~call.recovered /\ pc' = "loop" /\ UNCHANGED <<ops, source>>
    BY <1>10 DEF TaskFails, ledger
  <2>2. OpenKeys' = {}
    BY <2>1, <1>d DEF FreshCall, OpenKeys
  <2> QED BY <2>1, <2>2, <1>d, <1>n DEF SourceFits
<1>11. ASSUME ClaimOperation \/ ExplicitResume PROVE SourceFits'
  <2>1. PICK k \in OpenKeys, from \in {"waiting", "ambiguous"} :
          /\ Move(k, from, "prepared") /\ pc' = "loop" /\ source' = "running"
          /\ tasks' = [tasks EXCEPT ![k[1]] = "in_progress"]
    BY <1>11 DEF ClaimOperation, ExplicitResume, Reclaim
  <2>2. Moved(k, "prepared")
    BY <2>1, <1>o, <1>s, MoveEffect DEF CallInv
  <2>3. OpenKeys' = {k} /\ ops'[k].st = "prepared"
    BY <2>2, <1>s, MovedOpen DEF CallInv, Moved
  <2>4. tasks'[k[1]] = "in_progress"
    BY <2>1, <1>t
  <2> QED BY <2>1, <2>3, <2>4, <1>w
<1>12. ASSUME UserResumes PROVE SourceFits'
  <2>1. OpenKeys' = {} /\ source' = "running" /\ pc' = "loop"
    BY <1>12 DEF UserResumes, ledger, OpenKeys
  <2> QED BY <2>1, <1>n
<1>13. ASSUME Restart PROVE SourceFits'
  <2> DEFINE due == {k \in OpenKeys : ops[k].st \in {"prepared", "completed"}}
             lost == {k \in OpenKeys : ops[k].st = "invoking"}
  <2>0. pc = "down" /\ source \in {"running", "waiting", "interrupted"}
    BY <1>13, <1>d DEF Restart, SourceFits
  <2>1. /\ DOMAIN ops' = DOMAIN ops
        /\ \A k \in DOMAIN ops :
             ops'[k].st = IF ops[k].st = "invoking" THEN "ambiguous" ELSE ops[k].st
    <3>1. Reconciles
      BY <1>13 DEF Restart, Reconciles
    <3>2. \A k \in DOMAIN ops :
            Reconciled(k) = IF ops[k].st = "invoking" THEN "ambiguous" ELSE ops[k].st
      BY <2>0 DEF Reconciled
    <3> QED BY <3>1, <3>2, ReconcileEffect DEF CallInv
  <2>2. OpenKeys' = OpenKeys
    BY <2>1, <1>s DEF OpenKeys
  <2>3. \/ due # {} /\ pc' = "loop" /\ source' = "running" /\ UNCHANGED tasks
        \/ /\ lost # {} /\ pc' = "idle" /\ source' = "interrupted"
           /\ tasks' = Interrupted({"in_progress", "waiting"})
        \/ source = "running" /\ due \cup lost = {} /\ pc' = "idle" /\ source' = "interrupted"
        \/ /\ source # "running" /\ due \cup lost = {} /\ pc' = "idle"
           /\ UNCHANGED <<source, tasks>>
    <3> DEFINE parked == tasks' = Interrupted({"in_progress"})
    <3>1. \/ due # {} /\ pc' = "loop" /\ source' = "running" /\ UNCHANGED tasks
          \/ /\ lost # {} /\ pc' = "idle" /\ source' = "interrupted"
             /\ tasks' = Interrupted({"in_progress", "waiting"})
          \/ /\ source = "running" /\ due \cup lost = {} /\ pc' = "idle"
             /\ source' = "interrupted" /\ parked
          \/ /\ source # "running" /\ (source = "canceled" \/ due \cup lost = {})
             /\ pc' = "idle" /\ UNCHANGED <<source, tasks>>
      BY <1>13, <2>0 DEF Restart
    <3> HIDE DEF parked
    <3> QED BY <2>0, <3>1
  <2>4. ASSUME NEW k \in OpenKeys, ops[k].st \in {"prepared", "invoking", "completed"}
        PROVE  source = "running" /\ tasks[k[1]] = "in_progress"
    BY <2>0, <2>4, <1>o, <1>d DEF SourceFits
  <2>5. CASE due # {} /\ pc' = "loop" /\ source' = "running" /\ UNCHANGED tasks
    <3>1. PICK k \in OpenKeys : ops[k].st \in {"prepared", "completed"}
      BY <2>5
    <3>2. OpenKeys' = {k} /\ ops'[k].st \in {"prepared", "completed"}
      BY <3>1, <2>1, <2>2, <1>o
    <3> QED BY <2>5, <3>1, <3>2, <2>4, <1>w
  <2>6. CASE /\ lost # {} /\ pc' = "idle" /\ source' = "interrupted"
             /\ tasks' = Interrupted({"in_progress", "waiting"})
    <3>1. PICK k \in OpenKeys : ops[k].st = "invoking"
      BY <2>6
    <3>2. OpenKeys' = {k} /\ ops'[k].st = "ambiguous"
      BY <3>1, <2>1, <2>2, <1>o
    <3>3. tasks'[k[1]] = "pending"
      BY <2>6, <3>1, <2>4, <1>t DEF Interrupted
    <3> QED BY <2>6, <3>2, <3>3 DEF SourceFits
  <2>7. CASE source = "running" /\ due \cup lost = {} /\ pc' = "idle" /\ source' = "interrupted"
    <3>1. OpenKeys' = {}
      BY <2>7, <2>2, <1>d DEF SourceFits
    <3> QED BY <2>7, <3>1 DEF SourceFits
  <2>8. CASE /\ source # "running" /\ due \cup lost = {} /\ pc' = "idle"
             /\ UNCHANGED <<source, tasks>>
    <3>1. \A k \in OpenKeys : ops'[k].st = ops[k].st
      BY <2>8, <2>1, <1>o
    <3> HIDE DEF due, lost
    <3> QED BY <2>8, <3>1, <2>0, <2>2, <1>d DEF SourceFits
  <2> QED BY <2>3, <2>5, <2>6, <2>7, <2>8
<1> QED BY <1>1, <1>2, <1>3, <1>4, <1>5, <1>6, <1>7, <1>8, <1>9, <1>10, <1>11, <1>12, <1>13
        DEF Next, Step, World

LEMMA TablesInit == Init => TablesInv
<1> SUFFICES ASSUME Init PROVE TablesInv
  OBVIOUS
<1>1. DOMAIN ops = {} /\ DOMAIN baselines = {} /\ OpenKeys = {}
  BY DEF Init, OpenKeys
<1>2. BaselinesFit /\ FreshCall /\ RecoveredCall /\ SourceFits
  BY <1>1 DEF Init, BaselinesFit, FreshCall, RecoveredCall, SourceFits, InCall
<1>3. AppliedIsCompleted
  BY <1>1 DEF Init, AppliedIsCompleted
<1> QED BY <1>2, <1>3, CallInvInit DEF TablesInv

\* Whatever crashes, fails or is canceled: a task is completed exactly when a call
\* of it is applied, and a cycle at rest whose request is open is one that the
\* poll or the user can take up, with the call and the task their checks demand.
THEOREM TablesStayMatched == Spec => []LedgerMatchesTables
<1>1. TablesInv /\ [Next]_vars => TablesInv'
  BY CallInvStep, BaselinesStep, FreshStep, RecoveredStep, SourceStep, AppliedStep
     DEF TablesInv
<1>2. TablesInv => LedgerMatchesTables
  BY DEF TablesInv, SourceFits, LedgerMatchesTables, RestIsActionable
<1> QED BY TablesInit, <1>1, <1>2, PTL DEF Spec
=============================================================================
