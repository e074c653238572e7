--------------------------- MODULE CyclePlanProofs ---------------------------
(* Theorems about CyclePlan, for every number of owners, tasks, revisions  *)
(* and mishaps.                                                            *)
EXTENDS CyclePlan, SequenceTheorems, FiniteSetTheorems, WellFoundedInduction, TLAPS

-----------------------------------------------------------------------------
(* Least and greatest elements, for Min and Max.                           *)

LEMMA Least == \A S \in SUBSET Nat : S # {} => \E m \in S : \A x \in S : m <= x
<1> SUFFICES ASSUME NEW S \in SUBSET Nat, S # {} PROVE \E m \in S : \A x \in S : m <= x
  OBVIOUS
<1> DEFINE below == {p \in Nat \X Nat : p[1] < p[2]}
<1>1. IsWellFoundedOn(below, Nat)
  BY NatLessThanWellFounded DEF OpToRel
<1>2. PICK m \in S : \A y \in S : ~(<<y, m>> \in below)
  <2> HIDE DEF below
  <2> QED BY <1>1, WFMin
<1>3. \A y \in S : ~(y < m)
  BY <1>2
<1> QED BY <1>3

LEMMA MinIsIn == \A S \in SUBSET Nat : S # {} => Min(S) \in S
BY Least DEF Min

LEMMA MaxIsIn ==
  ASSUME NEW N \in Nat, NEW S \in SUBSET (1 .. N), S # {}
  PROVE  Max(S) \in S /\ \A x \in S : x <= Max(S)
<1> DEFINE rests == {n \in Nat : \E x \in S : n = N - x}
<1>1. rests \in SUBSET Nat /\ \A x \in S : N - x \in rests
  OBVIOUS
<1>2. PICK m \in S : \A x \in S : x <= m
  <2>1. PICK r \in rests : \A y \in rests : r <= y
    <3> HIDE DEF rests
    <3> QED BY <1>1, Least
  <2>2. PICK m \in S : r = N - m
    OBVIOUS
  <2>3. ASSUME NEW x \in S PROVE x <= m
    <3>1. N - m <= N - x
      BY <1>1, <2>1, <2>2
    <3> QED BY <3>1
  <2> QED BY <2>3
<1> QED BY <1>2 DEF Max

-----------------------------------------------------------------------------
(* What the rows look like, and where the call the coroutine is at stands. *)

Stages == Planning \cup Contests \cup Reviews
InCall == {"call", "invoking", "apply", "invalid"}
Rest == {"idle", "down"}
Quiet == {"raise", "settle"}
Pcs == InCall \cup Rest \cup Quiet \cup
       {"start", "add_work", "contest", "resume", "negotiate", "review", "verdict", "discard",
        "abandon", "execute", "error"}

IsKey(k) == k = <<k[1], k[2]>> /\ k[1] \in Stages /\ k[2] \in Nat
IsRow(k, r) ==
  /\ r = [st |-> r.st, answer |-> r.answer] /\ r.st \in OpStatus \ {"canceled"}
  /\ IF r.st \in {"completed", "applied"} THEN r.answer \in Answers(k[1]) ELSE r.answer = "none"

OpsShape ==
  /\ ops = [k \in DOMAIN ops |-> ops[k]]
  /\ \A k \in DOMAIN ops : IsKey(k) /\ IsRow(k, ops[k])

\* A cycle has at most one call that is not done.
OneOpen == \A k, l \in OpenKeys : k = l

CallShape ==
  /\ call = [key |-> call.key, plain |-> call.plain] /\ call.plain \in BOOLEAN
  /\ pc \in Pcs /\ (pc \in InCall => IsKey(call.key))
  /\ call.key[1] \in Reviews => ~call.plain

Is(k, st) == k \in DOMAIN ops /\ ops[k].st = st

\* Between two commits the row of the call is where the code thinks it is, no other call
\* is open, and none that is open waits.
CallFits ==
  /\ pc = "call" => Is(call.key, "prepared")
  /\ pc = "invoking" => Is(call.key, "invoking")
  /\ pc = "apply" => Is(call.key, "completed") \/ Is(call.key, "applied")
  /\ pc = "invalid" => Is(call.key, "failed")
  /\ pc \in InCall => OpenKeys \subseteq {call.key}
  /\ pc \in Quiet => OpenKeys = {}
  /\ pc = "contest" => DOMAIN ops = {}
  /\ pc \notin Rest \cup {"invoking", "error"} =>
       \A k \in OpenKeys : ops[k].st \in {"prepared", "completed"}

\* A question of the leader is the only thing its cycle waits for.
AskedFits ==
  /\ asked \in {"collecting", "published"} => OpenKeys = {} /\ pc \in Quiet \cup Rest
  /\ asked = "published" => cycle = "waiting_for_user"
  /\ asked = "collecting" => pc \in {"raise", "down"}

RevStatus == {"awaiting_approval", "approved", "superseded", "abandoned"}
Reviewing == [Approvers -> {"none", "approve", "object"}]
RevRow == [status : RevStatus, tasks : SUBSET Nat, reviews : Reviewing]
TablesShape == revs \in Seq(RevRow) /\ tasks \in Seq({"pending", "canceled", "completed"})

\* What is reviewed is the plan under negotiation, what is discarded was refused.
TurnFits ==
  /\ pc \in {"review", "verdict"} \/ (pc \in InCall /\ call.key[1] \in Reviews) => Active # {}
  /\ pc = "discard" => Superseded # {}

CallInv == OpsShape /\ OneOpen /\ CallShape /\ CallFits /\ AskedFits /\ TablesShape /\ TurnFits

-----------------------------------------------------------------------------
(* What a step does to the ledger *)

Tabular == ops' = [k \in DOMAIN ops' |-> ops'[k]]

\* the row of k moves, its answer stays
Moved(k, to) ==
  /\ Tabular /\ DOMAIN ops' = DOMAIN ops
  /\ ops'[k] = [st |-> to, answer |-> ops[k].answer]
  /\ \A l \in DOMAIN ops \ {k} : ops'[l] = ops[l]
Stored(k, a) ==
  /\ Tabular /\ DOMAIN ops' = DOMAIN ops
  /\ ops'[k] = [st |-> "completed", answer |-> a]
  /\ \A l \in DOMAIN ops \ {k} : ops'[l] = ops[l]
Reserved(k) ==
  /\ k \notin DOMAIN ops /\ Tabular /\ DOMAIN ops' = DOMAIN ops \cup {k}
  /\ ops'[k] = [st |-> "prepared", answer |-> "none"]
  /\ \A l \in DOMAIN ops : ops'[l] = ops[l]
\* the calls under way when the process stopped
Reconciled ==
  /\ Tabular /\ DOMAIN ops' = DOMAIN ops
  /\ \A l \in DOMAIN ops : ops'[l] = IF ops[l].st = "invoking"
                                     THEN [st |-> "ambiguous", answer |-> ops[l].answer] ELSE ops[l]

Transitions ==
  {<<"prepared", "invoking">>, <<"invoking", "failed">>, <<"invoking", "waiting">>,
   <<"invoking", "ambiguous">>, <<"completed", "applied">>, <<"waiting", "prepared">>,
   <<"ambiguous", "prepared">>}

\* what _invoke_operation does with a call to be made
Asked(key) ==
  /\ call' = [key |-> key, plain |-> FALSE] /\ IsKey(key)
  /\ \/ pc' = "call" /\ OpenKeys = {} /\ Reserved(key)
     \/ pc' = "call" /\ UNCHANGED ops /\ Is(key, "prepared") /\ OpenKeys \subseteq {key}
     \/ /\ pc' = "apply" /\ UNCHANGED ops /\ OpenKeys \subseteq {key}
        /\ Is(key, "completed") \/ Is(key, "applied")
     \/ pc' = "error" /\ UNCHANGED ops
\* a stored or prepared call that a restart found
Recovered(key) ==
  /\ call' = [key |-> key, plain |-> TRUE] /\ key \in OpenKeys /\ UNCHANGED ops
  /\ \/ pc' = "call" /\ ops[key].st = "prepared"
     \/ pc' = "apply" /\ ops[key].st = "completed"

LEMMA MoveEffect ==
  ASSUME OpsShape, NEW k \in DOMAIN ops, NEW to, ops' = With(k, to)
  PROVE  Moved(k, to)
<1>1. /\ DOMAIN ops' = DOMAIN ops /\ Tabular
      /\ ops'[k] = [ops[k] EXCEPT !.st = to]
      /\ \A l \in DOMAIN ops \ {k} : ops'[l] = ops[l]
  BY DEF OpsShape, With, Tabular
<1>2. ops[k] = [st |-> ops[k].st, answer |-> ops[k].answer]
  BY DEF OpsShape, IsRow
<1>3. ops'[k] = [st |-> to, answer |-> ops[k].answer]
  BY <1>1, <1>2
<1> QED BY <1>1, <1>3 DEF Moved

\* An answer that was applied is not applied again.
LEMMA ReplayEffect ==
  ASSUME OpsShape, NEW k \in DOMAIN ops, ops[k].st = "applied", ops' = With(k, "applied")
  PROVE  ops' = ops
<1>1. Moved(k, "applied")
  BY MoveEffect
<1>2. ops[k] = [st |-> "applied", answer |-> ops[k].answer]
  BY DEF OpsShape, IsRow
<1>3. DOMAIN ops' = DOMAIN ops /\ \A l \in DOMAIN ops : ops'[l] = ops[l]
  BY <1>1, <1>2 DEF Moved
<1> QED BY <1>1, <1>3 DEF OpsShape, Moved, Tabular

LEMMA AskEffect ==
  ASSUME OpsShape, NEW key, IsKey(key), Ask(key),
         \A k \in OpenKeys : ops[k].st \in {"prepared", "completed"}
  PROVE  Asked(key)
<1>0. call' = [key |-> key, plain |-> FALSE]
  BY DEF Ask
<1>1. CASE key \notin DOMAIN ops /\ OpenKeys \subseteq {key}
  <2>1. OpenKeys = {}
    BY <1>1 DEF OpenKeys
  <2>2. ops' = Inserted(ops, key, [st |-> "prepared", answer |-> "none"]) /\ pc' = "call"
    BY <1>1 DEF Ask
  <2>3. Reserved(key)
    BY <1>1, <2>2 DEF Inserted, Reserved, Tabular
  <2> QED BY <1>0, <2>1, <2>2, <2>3 DEF Asked
<1>2. CASE key \in DOMAIN ops /\ OpenKeys \subseteq {key}
  <2>1. UNCHANGED ops /\ pc' = (CASE ops[key].st = "prepared" -> "call"
                                   [] ops[key].st \in {"completed", "applied"} -> "apply"
                                   [] OTHER -> "error")
    BY <1>2 DEF Ask
  <2> QED BY <1>0, <1>2, <2>1 DEF Asked, Is
<1>3. CASE ~(OpenKeys \subseteq {key})
  BY <1>0, <1>3 DEF Ask, Asked
<1> QED BY <1>1, <1>2, <1>3

LEMMA RecoverEffect ==
  ASSUME NEW key \in OpenKeys, Recover(key), ops[key].st \in {"prepared", "completed"}
  PROVE  Recovered(key)
BY DEF Recover, Recovered

\* The call's answer is applied; one that was applied before only tells what was stored.
LEMMA ApplyEffect ==
  ASSUME CallInv, pc = "apply", Applied
  PROVE  /\ IsKey(call.key) /\ call.key \in DOMAIN ops /\ ops[call.key].answer \in Answers(call.key[1])
         /\ OpenKeys \subseteq {call.key}
         /\ \/ Is(call.key, "completed") /\ ~Replayed /\ Moved(call.key, "applied")
            \/ Is(call.key, "applied") /\ Replayed /\ UNCHANGED ops
<1>1. /\ IsKey(call.key) /\ OpenKeys \subseteq {call.key}
      /\ Is(call.key, "completed") \/ Is(call.key, "applied")
      /\ ops' = With(call.key, "applied")
  BY DEF CallInv, CallFits, CallShape, InCall, Applied
<1>2. call.key \in DOMAIN ops /\ ops[call.key].answer \in Answers(call.key[1])
  BY <1>1 DEF CallInv, OpsShape, IsRow, Is
<1>3. CASE Is(call.key, "completed")
  BY <1>1, <1>2, <1>3, MoveEffect DEF CallInv, Is, Replayed, Status
<1>4. CASE Is(call.key, "applied")
  BY <1>1, <1>2, <1>4, ReplayEffect DEF CallInv, Is, Replayed, Status
<1> QED BY <1>1, <1>2, <1>3, <1>4

LEMMA CompleteEffect ==
  ASSUME CallInv, NEW a \in Answers(call.key[1]), Complete(a)
  PROVE  Is(call.key, "invoking") /\ Stored(call.key, a)
<1>1. Is(call.key, "invoking") /\ call.key \in DOMAIN ops
  BY DEF CallInv, CallFits, Complete, Is
<1>2. ops' = [ops EXCEPT ![call.key] = [st |-> "completed", answer |-> a]]
  BY DEF Complete
<1> QED BY <1>1, <1>2 DEF CallInv, OpsShape, Stored, Tabular

LEMMA AttemptEffect ==
  ASSUME CallInv
  PROVE  /\ BeginAttempt => Is(call.key, "prepared") /\ Moved(call.key, "invoking")
         /\ MarkFailed => Is(call.key, "invoking") /\ Moved(call.key, "failed")
         /\ Ambiguous => Is(call.key, "invoking") /\ Moved(call.key, "ambiguous")
         /\ Park => /\ Is(call.key, "invoking")
                    /\ \/ Moved(call.key, "waiting") /\ Ends /\ BothBecome("waiting_for_provider")
                       \/ Raise
<1>1. pc = "call" => Is(call.key, "prepared") /\ call.key \in DOMAIN ops
  BY DEF CallInv, CallFits, Is
<1>2. pc = "invoking" => Is(call.key, "invoking") /\ call.key \in DOMAIN ops
  BY DEF CallInv, CallFits, Is
<1>3. OpsShape
  BY DEF CallInv
<1>4. ASSUME BeginAttempt PROVE Is(call.key, "prepared") /\ Moved(call.key, "invoking")
  BY <1>1, <1>3, <1>4, MoveEffect DEF BeginAttempt
<1>5. ASSUME MarkFailed PROVE Is(call.key, "invoking") /\ Moved(call.key, "failed")
  BY <1>2, <1>3, <1>5, MoveEffect DEF MarkFailed
<1>6. ASSUME Ambiguous PROVE Is(call.key, "invoking") /\ Moved(call.key, "ambiguous")
  BY <1>2, <1>3, <1>6, MoveEffect DEF Ambiguous
<1>7. ASSUME Park
      PROVE  /\ Is(call.key, "invoking")
             /\ \/ Moved(call.key, "waiting") /\ Ends /\ BothBecome("waiting_for_provider")
                \/ Raise
  <2>1. Raise \/ (Ends /\ ops' = With(call.key, "waiting") /\ BothBecome("waiting_for_provider"))
    BY <1>7 DEF Park
  <2> QED BY <1>2, <1>3, <1>7, <2>1, MoveEffect DEF Park
<1> QED BY <1>4, <1>5, <1>6, <1>7

\* Start-up: a call is continued, the ones under way are ambiguous, or there is none.
LEMMA RestartEffect ==
  ASSUME CallInv, Restart
  PROVE  /\ pc = "down" /\ Reconciled /\ UNCHANGED <<tasks, revs, call, request>>
         /\ \/ \E k \in OpenKeys : /\ ops[k].st \in {"prepared", "completed"} /\ Continue(k)
                                   /\ UNCHANGED <<ops, run, cycle, asked>>
            \/ /\ pc' = "idle" /\ UNCHANGED entry
               /\ \A k \in OpenKeys : ops[k].st \notin {"prepared", "completed"}
               /\ asked' = (IF asked = "collecting" THEN "published" ELSE asked)
               /\ \/ (\E k \in OpenKeys : ops[k].st = "invoking") /\ BothBecome("interrupted")
                  \/ /\ \A k \in OpenKeys : ops[k].st # "invoking"
                     /\ \/ asked = "collecting" /\ BothBecome("waiting_for_user")
                        \/ /\ asked # "collecting"
                           /\ cycle' = (IF cycle \in {"queued", "running"} THEN "interrupted" ELSE cycle)
                           /\ run' = (IF run \in {"planning", "running"} THEN "interrupted" ELSE run)
<1> DEFINE due == {k \in OpenKeys : ops[k].st \in {"prepared", "completed"}}
           lost == {k \in OpenKeys : ops[k].st = "invoking"}
<1>1. /\ pc = "down" /\ UNCHANGED <<tasks, revs, call, mishaps>>
      /\ ops' = [k \in DOMAIN ops |-> IF k \in lost THEN [ops[k] EXCEPT !.st = "ambiguous"] ELSE ops[k]]
      /\ IF due # {} THEN Continue(CHOOSE k \in due : TRUE) ELSE pc' = "idle" /\ UNCHANGED entry
      /\ asked' = (IF due = {} /\ asked = "collecting" THEN "published" ELSE asked)
      /\ CASE lost # {} -> BothBecome("interrupted")
           [] due # {} -> UNCHANGED status
           [] due \cup lost = {} /\ asked = "collecting" -> BothBecome("waiting_for_user")
           [] OTHER ->
                /\ cycle' = (IF cycle \in {"queued", "running"} THEN "interrupted" ELSE cycle)
                /\ run' = (IF run \in {"planning", "running"} THEN "interrupted" ELSE run)
                /\ UNCHANGED request
  BY DEF Restart
<1>2. \A k \in DOMAIN ops : ops[k] = [st |-> ops[k].st, answer |-> ops[k].answer]
  BY DEF CallInv, OpsShape, IsRow
<1>3. \A k \in DOMAIN ops : ops[k].st = "invoking" <=> k \in lost
  BY DEF OpenKeys, OpenOp
<1> HIDE DEF due, lost
<1>4. Reconciled
  BY <1>1, <1>2, <1>3 DEF Reconciled, Tabular
<1>6. CASE due # {}
  <2>1. PICK k \in due : Continue(k)
    BY <1>1, <1>6
  <2>2. k \in OpenKeys /\ ops[k].st \in {"prepared", "completed"}
    BY <2>1 DEF due
  <2>3. lost = {}
    BY <2>2 DEF CallInv, OneOpen, lost
  <2>4. UNCHANGED ops
    BY <1>1, <2>3 DEF CallInv, OpsShape
  <2>5. UNCHANGED <<run, cycle, asked, request>>
    BY <1>1, <1>6, <2>3 DEF status
  <2> QED BY <1>1, <1>4, <2>5, <2>1, <2>2, <2>4
<1>7. CASE due = {}
  <2>1. \A k \in OpenKeys : ops[k].st \notin {"prepared", "completed"}
    BY <1>7 DEF due
  <2>2. pc' = "idle" /\ UNCHANGED entry
        /\ asked' = (IF asked = "collecting" THEN "published" ELSE asked)
    BY <1>1, <1>7
  <2>3. CASE lost # {}
    <3>1. BothBecome("interrupted")
      BY <1>1, <1>7, <2>3
    <3>2. UNCHANGED request
      BY <3>1 DEF BothBecome
    <3> QED BY <1>1, <1>4, <2>1, <2>2, <2>3, <3>1, <3>2 DEF lost
  <2>4. CASE lost = {}
    <3>1. \A k \in OpenKeys : ops[k].st # "invoking"
      BY <2>4 DEF lost
    <3>2. \/ asked = "collecting" /\ BothBecome("waiting_for_user")
          \/ /\ asked # "collecting"
             /\ cycle' = (IF cycle \in {"queued", "running"} THEN "interrupted" ELSE cycle)
             /\ run' = (IF run \in {"planning", "running"} THEN "interrupted" ELSE run)
      BY <1>1, <1>7, <2>4
    <3>3. UNCHANGED request
      BY <1>1, <1>7, <2>4 DEF BothBecome
    <3> QED BY <1>1, <1>4, <2>1, <2>2, <3>1, <3>2, <3>3
  <2> QED BY <2>3, <2>4
<1> QED BY <1>6, <1>7

LEMMA ReclaimEffect ==
  ASSUME CallInv, Reclaim
  PROVE  \E k \in OpenKeys :
           /\ ops[k].st \in {"waiting", "ambiguous"} /\ Moved(k, "prepared") /\ Continue(k)
           /\ pc = "idle" /\ request = "dispatching"
           /\ run' = RestoredRun(k) /\ cycle' = ActiveSource(k).cycle
<1>1. PICK k \in OpenKeys :
        /\ pc = "idle" /\ ops[k].st \in {"waiting", "ambiguous"} /\ request = "dispatching"
        /\ ops' = With(k, "prepared") /\ Continue(k)
        /\ run' = RestoredRun(k) /\ cycle' = ActiveSource(k).cycle
  BY DEF Reclaim
<1>2. k \in DOMAIN ops /\ OpsShape
  BY DEF OpenKeys, CallInv
<1> QED BY <1>1, <1>2, MoveEffect

-----------------------------------------------------------------------------
(* Which call is made next *)

LEMMA StageKinds ==
  /\ Planning \cap Contests = {} /\ Planning \cap Reviews = {} /\ Contests \cap Reviews = {}
  /\ Reviews = {"review", "review_repair"} /\ Contests = {"contest", "contest_repair"}
  /\ Planning = {"planning", "planning_repair", "add_work"} /\ "none" \notin Stages
BY DEF Planning, Contests, Reviews, Stages

LEMMA MadeKeys ==
  /\ \A r \in Nat, i \in Approvers : /\ IsKey(ReviewKey(r, i)) /\ ReviewKey(r, i)[1] = "review"
                                     /\ IsKey(RepairKey(ReviewKey(r, i)))
                                     /\ RepairKey(ReviewKey(r, i))[1] = "review_repair"
  /\ \A r \in Nat : IsKey(ReplanKey(r)) /\ ReplanKey(r)[1] = "planning"
  /\ \A k : IsKey(k) /\ k[1] \notin Repairs => IsKey(RepairKey(k)) /\ RepairKey(k)[1] \in Repairs
  /\ IsKey(<<"planning", 0>>) /\ IsKey(<<"add_work", 0>>) /\ IsKey(<<"contest", 0>>)
<1>1. \A r \in Nat, i \in Approvers : r * 100 + i - 1 \in Nat
  BY PlanConstants DEF Approvers
<1>2. \A r \in Nat : 10 * (r + 1) \in Nat
  OBVIOUS
<1>3. \A k : IsKey(k) /\ k[1] \notin Repairs => IsKey(RepairKey(k)) /\ RepairKey(k)[1] \in Repairs
  BY StageKinds DEF IsKey, RepairKey, Repairs, Stages
<1>4. \A n \in Nat, s \in Stages : IsKey(<<s, n>>) /\ <<s, n>>[1] = s
  BY DEF IsKey
<1>5. ASSUME NEW r \in Nat, NEW i \in Approvers
      PROVE  /\ IsKey(ReviewKey(r, i)) /\ ReviewKey(r, i)[1] = "review"
             /\ RepairKey(ReviewKey(r, i))[1] = "review_repair"
  BY <1>1, <1>4, StageKinds DEF ReviewKey, RepairKey, Stride, Stages
<1>6. ASSUME NEW r \in Nat PROVE IsKey(ReplanKey(r)) /\ ReplanKey(r)[1] = "planning"
  BY <1>2, <1>4, StageKinds DEF ReplanKey, Stages
<1>7. \A r \in Nat, i \in Approvers : IsKey(RepairKey(ReviewKey(r, i)))
  BY <1>3, <1>5 DEF Repairs
<1> QED BY <1>3, <1>4, <1>5, <1>6, <1>7, StageKinds DEF Stages

LEMMA PlannedEffect ==
  ASSUME CallInv, pc \notin Rest \cup {"invoking", "error"}, NEW first, IsKey(first), Planned(first)
  PROVE  \/ OpenKeys = {} /\ Asked(first)
         \/ \E k \in OpenKeys : /\ k[1] \in Planning /\ Recovered(k)
                                /\ ops[k].st = "completed" \/ k[1] = first[1] \/ k = RepairKey(first)
         \/ OpenKeys # {} /\ Raise
<1>1. \A k \in OpenKeys : ops[k].st \in {"prepared", "completed"}
  BY DEF CallInv, CallFits
<1>2. CASE OpenKeys = {}
  BY <1>1, <1>2, AskEffect DEF Planned, CallInv
<1>3. CASE OpenKeys # {}
  <2>1. PICK open \in OpenKeys :
          \/ /\ open[1] \in Planning /\ Recover(open)
             /\ ops[open].st = "completed" \/ open[1] = first[1] \/ open = RepairKey(first)
          \/ Raise
    BY <1>3 DEF Planned
  <2> QED BY <1>1, <1>3, <2>1, RecoverEffect
<1> QED BY <1>2, <1>3

LEMMA AddWorkEffect ==
  ASSUME CallInv, AddWork
  PROVE  \/ OpenKeys = {} /\ Asked(<<"add_work", 0>>)
         \/ \E k \in OpenKeys : k[1] \in Planning /\ Recovered(k)
         \/ OpenKeys # {} /\ Raise
BY PlannedEffect, MadeKeys DEF AddWork, Rest

LEMMA StartEffect ==
  ASSUME CallInv, Start
  PROVE  \/ OpenKeys = {} /\ Asked(<<"planning", 0>>)
         \/ \E k \in OpenKeys : k[1] \in Planning /\ Recovered(k)
         \/ OpenKeys # {} /\ Raise
BY PlannedEffect, MadeKeys DEF Start, Rest

LEMMA AdjudicateEffect ==
  ASSUME CallInv, AdjudicateContest
  PROVE  Asked(<<"contest", 0>>) /\ OpenKeys = {}
<1>1. DOMAIN ops = {} /\ OpenKeys = {}
  BY DEF AdjudicateContest, CallInv, CallFits, OpenKeys
<1>2. {k \in DOMAIN ops : k[1] = "contest"} = {}
  BY <1>1
<1>3. Ask(<<"contest", 0>>)
  BY <1>2, FS_EmptySet DEF AdjudicateContest
<1> QED BY <1>1, <1>3, AskEffect, MadeKeys DEF CallInv

LEMMA ResumeContestEffect ==
  ASSUME CallInv, ResumeContest
  PROVE  \E k \in OpenKeys : k[1] \in Contests /\ Recovered(k)
<1>1. PICK k \in OpenContests : Recover(k)
  BY DEF ResumeContest
<1>2. k \in OpenKeys /\ k[1] \in Contests /\ ops[k].st \in {"prepared", "completed"}
  BY <1>1 DEF OpenContests, ResumeContest, CallInv, CallFits, Rest
<1> QED BY <1>1, <1>2, RecoverEffect

LEMMA InvalidEffect ==
  ASSUME CallInv, Invalid
  PROVE  /\ IsKey(call.key) /\ Is(call.key, "failed") /\ OpenKeys = {}
         /\ \/ call.key[1] \notin Repairs /\ ~call.plain /\ Asked(RepairKey(call.key))
            \/ UNCHANGED <<ops, call>> /\ call.key[1] \in Reviews \cap Repairs /\ pc' = "verdict"
            \/ UNCHANGED <<ops, call>> /\ call.key[1] \notin Reviews /\ pc' = "error"
<1>1. IsKey(call.key) /\ Is(call.key, "failed") /\ pc = "invalid" /\ OpenKeys \subseteq {call.key}
  BY DEF CallInv, CallFits, CallShape, InCall, Invalid
<1>2. OpenKeys = {}
  BY <1>1 DEF OpenKeys, OpenOp, Is
<1>3. CASE call.plain \/ call.key[1] \in Repairs
  BY <1>1, <1>2, <1>3 DEF Invalid, CallInv, CallShape
<1>4. CASE ~(call.plain \/ call.key[1] \in Repairs)
  <2>1. Ask(RepairKey(call.key))
    BY <1>4 DEF Invalid
  <2>2. IsKey(RepairKey(call.key))
    BY <1>1, <1>4, MadeKeys
  <2>3. \A key : key = RepairKey(call.key) /\ Ask(key) => Asked(key)
    BY <1>2, <2>2, AskEffect DEF CallInv
  <2> QED BY <1>1, <1>2, <1>4, <2>1, <2>3
<1> QED BY <1>3, <1>4

LEMMA ResumeReplanEffect ==
  ASSUME CallInv, ResumeReplan
  PROVE  \E k \in OpenKeys : /\ ReplanSource(k) # 0
                             /\ (k[1] = "planning" /\ Asked(k)) \/ (k[1] # "planning" /\ Raise)
<1>1. PICK k \in OpenKeys : ReplanSource(k) # 0
  BY DEF ResumeReplan, ReplanIsOpen
<1>2. OpenKeys = {k}
  BY <1>1 DEF CallInv, OneOpen
<1>3. (CHOOSE l \in OpenKeys : TRUE) = k
  BY <1>2
<1>4. (k[1] = "planning" /\ Ask(k)) \/ (k[1] # "planning" /\ Raise)
  BY <1>3 DEF ResumeReplan
<1>5. IsKey(k) /\ \A l \in OpenKeys : ops[l].st \in {"prepared", "completed"}
  BY <1>1 DEF CallInv, CallFits, OpsShape, OpenKeys, ResumeReplan, Rest
<1>6. k[1] = "planning" /\ Ask(k) => Asked(k)
  BY <1>5, AskEffect DEF CallInv
<1> QED BY <1>1, <1>4, <1>6

\* the newest of the revisions of a kind
LEMMA NewestIsIn ==
  ASSUME TablesShape, NEW S \in SUBSET DOMAIN revs, S # {}
  PROVE  Max(S) \in S /\ Max(S) \in Nat /\ Max(S) \in DOMAIN revs /\ \A x \in S : x <= Max(S)
<1>1. DOMAIN revs = 1 .. Len(revs) /\ Len(revs) \in Nat
  BY DEF TablesShape
<1>2. Max(S) \in S /\ \A x \in S : x <= Max(S)
  BY <1>1, MaxIsIn
<1> QED BY <1>1, <1>2

LEMMA ReplanAgainEffect ==
  ASSUME CallInv, ReplanAgain
  PROVE  \/ /\ NextRevision(Len(revs)) # 0
            /\ \E r \in Superseded : r = Max(Superseded) /\ Asked(ReplanKey(r))
         \/ UNCHANGED <<ops, call>> /\ pc' \in {"abandon", "error"}
<1>1. CASE Superseded # {} /\ NextRevision(Len(revs)) # 0 /\ Ask(ReplanKey(Max(Superseded)))
  <2>1. PICK r \in Superseded : r = Max(Superseded) /\ r \in Nat /\ Ask(ReplanKey(r))
    BY <1>1, NewestIsIn DEF Superseded, CallInv
  <2>2. IsKey(ReplanKey(r)) /\ \A l \in OpenKeys : ops[l].st \in {"prepared", "completed"}
    BY <2>1, MadeKeys DEF ReplanAgain, CallInv, CallFits, Rest
  <2> QED BY <1>1, <2>1, <2>2, AskEffect DEF CallInv
<1>2. CASE UNCHANGED <<ops, call>> /\ pc' \in {"abandon", "error"}
  BY <1>2
<1>3. \/ Superseded # {} /\ NextRevision(Len(revs)) # 0 /\ Ask(ReplanKey(Max(Superseded)))
      \/ UNCHANGED <<ops, call>> /\ pc' \in {"abandon", "error"}
  <2>1. CASE Superseded # {} /\ NextRevision(Len(revs)) # 0
    <3>1. revs # <<>>
      BY <2>1 DEF Superseded
    <3> QED BY <2>1, <3>1 DEF ReplanAgain
  <2>2. CASE ~(Superseded # {} /\ NextRevision(Len(revs)) # 0)
    BY <2>2 DEF ReplanAgain, Raise
  <2> QED BY <2>1, <2>2
<1> QED BY <1>1, <1>2, <1>3

LEMMA AskReviewEffect ==
  ASSUME CallInv, AskReview
  PROVE  \E r \in Active :
           /\ r = Max(Active) /\ r \in DOMAIN revs /\ r \in Nat
           /\ \/ Unreviewed(r) = {} /\ pc' = "verdict" /\ UNCHANGED <<ops, call>>
              \/ \E i \in Unreviewed(r) :
                   \/ Asked(ReviewKey(r, i))
                   \/ /\ RepairKey(ReviewKey(r, i)) \in OpenKeys
                      /\ Status(ReviewKey(r, i)) = "failed" /\ Asked(RepairKey(ReviewKey(r, i)))
<1>1. PICK r \in Active : r = Max(Active) /\ r \in DOMAIN revs /\ r \in Nat
  BY NewestIsIn DEF AskReview, CallInv, TurnFits, Active
<1>2. CASE Unreviewed(r) = {}
  BY <1>1, <1>2 DEF AskReview
<1>3. CASE Unreviewed(r) # {}
  <2>1. PICK i \in Unreviewed(r) : i = Min(Unreviewed(r)) /\ i \in Approvers
    <3>1. Unreviewed(r) \in SUBSET Nat
      BY PlanConstants DEF Unreviewed, Approvers
    <3> QED BY <1>3, <3>1, MinIsIn DEF Unreviewed
  <2>2. \/ Ask(ReviewKey(r, i))
        \/ /\ RepairKey(ReviewKey(r, i)) \in OpenKeys
           /\ Status(ReviewKey(r, i)) = "failed" /\ Ask(RepairKey(ReviewKey(r, i)))
    BY <1>1, <1>3, <2>1 DEF AskReview
  <2>3. \A l \in OpenKeys : ops[l].st \in {"prepared", "completed"}
    BY DEF AskReview, CallInv, CallFits, Rest
  <2>4. IsKey(ReviewKey(r, i)) /\ IsKey(RepairKey(ReviewKey(r, i)))
    BY <1>1, <2>1, MadeKeys
  <2> QED BY <1>1, <2>1, <2>2, <2>3, <2>4, AskEffect DEF CallInv
<1> QED BY <1>2, <1>3

LEMMA DiscardEffect ==
  ASSUME CallInv, Discard
  PROVE  /\ Superseded # {}
         /\ \/ Pending # {} /\ CancelTask(Min(Pending)) /\ UNCHANGED <<ops, call, pc>>
            \/ /\ Pending = {} /\ UNCHANGED tasks
               /\ \E r \in Superseded : r = Max(Superseded) /\ Asked(ReplanKey(r))
<1>1. Superseded # {}
  BY DEF Discard, CallInv, TurnFits
<1>2. CASE Pending = {}
  <2>1. PICK r \in Superseded : r = Max(Superseded) /\ r \in Nat
    BY <1>1, NewestIsIn DEF Superseded, CallInv
  <2>2. Ask(ReplanKey(r)) /\ UNCHANGED tasks
    BY <1>2, <2>1 DEF Discard
  <2>3. IsKey(ReplanKey(r)) /\ \A l \in OpenKeys : ops[l].st \in {"prepared", "completed"}
    BY <2>1, MadeKeys DEF Discard, CallInv, CallFits, Rest
  <2> QED BY <1>1, <1>2, <2>1, <2>2, <2>3, AskEffect DEF CallInv
<1> QED BY <1>1, <1>2 DEF Discard

-----------------------------------------------------------------------------
(* The ledger from one step to the next                                    *)

LedgerStep ==
  \/ UNCHANGED ops
  \/ \E k : IsKey(k) /\ OpenKeys = {} /\ Reserved(k)
  \/ \E k \in DOMAIN ops : \E to : <<ops[k].st, to>> \in Transitions /\ Moved(k, to)
  \/ \E k \in DOMAIN ops : \E a \in Answers(k[1]) : ops[k].st = "invoking" /\ Stored(k, a)
  \/ Reconciled

LEMMA OpenAfter ==
  ASSUME CallInv
  PROVE  /\ UNCHANGED ops => OpenKeys' = OpenKeys
         /\ Reconciled => OpenKeys' = OpenKeys
         /\ \A k : Reserved(k) => OpenKeys' = OpenKeys \cup {k}
         /\ \A k \in DOMAIN ops : \A a : Stored(k, a) => OpenKeys' = OpenKeys \cup {k}
         /\ \A k \in DOMAIN ops : \A to : Moved(k, to) =>
              OpenKeys' = IF to \in OpenOp THEN OpenKeys \cup {k} ELSE OpenKeys \ {k}
<1>1. UNCHANGED ops => OpenKeys' = OpenKeys
  BY DEF OpenKeys
<1>2. Reconciled => OpenKeys' = OpenKeys
  BY DEF OpenKeys, OpenOp, Reconciled
<1>3. ASSUME NEW k, Reserved(k) PROVE OpenKeys' = OpenKeys \cup {k}
  BY <1>3 DEF OpenKeys, OpenOp, Reserved
<1>4. ASSUME NEW k \in DOMAIN ops, NEW a, Stored(k, a) PROVE OpenKeys' = OpenKeys \cup {k}
  BY <1>4 DEF OpenKeys, OpenOp, Stored
<1>5. ASSUME NEW k \in DOMAIN ops, NEW to, Moved(k, to)
      PROVE  OpenKeys' = IF to \in OpenOp THEN OpenKeys \cup {k} ELSE OpenKeys \ {k}
  <2>1. ops'[k].st = to
    BY <1>5 DEF Moved
  <2> QED BY <1>5, <2>1 DEF OpenKeys, Moved
<1> QED BY <1>1, <1>2, <1>3, <1>4, <1>5

\* Rows keep their shape, and no second call is opened.
LEMMA LedgerShape ==
  ASSUME CallInv, LedgerStep
  PROVE  OpsShape' /\ OneOpen'
<1>0. OpsShape /\ OneOpen
  BY DEF CallInv
<1>1. CASE UNCHANGED ops
  BY <1>0, <1>1 DEF OpsShape, OneOpen, OpenKeys, IsRow, IsKey
<1>2. ASSUME NEW k, IsKey(k), OpenKeys = {}, Reserved(k) PROVE OpsShape' /\ OneOpen'
  <2>1. IsRow(k, ops'[k])
    BY <1>2 DEF Reserved, IsRow, OpStatus
  <2>2. OpsShape'
    BY <1>0, <1>2, <2>1 DEF OpsShape, Reserved, Tabular, IsRow, IsKey
  <2> QED BY <1>2, <2>2, OpenAfter DEF OneOpen
<1>3. ASSUME NEW k \in DOMAIN ops, NEW to, <<ops[k].st, to>> \in Transitions, Moved(k, to)
      PROVE  OpsShape' /\ OneOpen'
  <2>1. k \in OpenKeys /\ IsRow(k, ops[k]) /\ to \in OpStatus \ {"canceled"}
    BY <1>0, <1>3 DEF OpsShape, Transitions, OpenKeys, OpenOp, OpStatus
  <2>2. IsRow(k, ops'[k])
    BY <1>3, <2>1 DEF Moved, IsRow, Transitions
  <2>3. OpsShape'
    BY <1>0, <1>3, <2>2 DEF OpsShape, Moved, Tabular, IsRow, IsKey
  <2>4. OpenKeys' \subseteq OpenKeys
    BY <1>3, <2>1, OpenAfter
  <2> QED BY <1>0, <2>3, <2>4 DEF OneOpen
<1>4. ASSUME NEW k \in DOMAIN ops, NEW a \in Answers(k[1]), ops[k].st = "invoking", Stored(k, a)
      PROVE  OpsShape' /\ OneOpen'
  <2>1. IsRow(k, ops'[k])
    BY <1>4 DEF Stored, IsRow, OpStatus
  <2>2. OpsShape'
    BY <1>0, <1>4, <2>1 DEF OpsShape, Stored, Tabular, IsRow, IsKey
  <2>3. k \in OpenKeys
    BY <1>4 DEF OpenKeys, OpenOp
  <2>4. OpenKeys' \subseteq OpenKeys
    BY <1>4, <2>3, OpenAfter
  <2> QED BY <1>0, <2>2, <2>4 DEF OneOpen
<1>5. CASE Reconciled
  <2>1. ASSUME NEW k \in DOMAIN ops PROVE IsRow(k, ops'[k])
    BY <1>0, <1>5 DEF OpsShape, Reconciled, IsRow, OpStatus
  <2>2. OpsShape'
    BY <1>0, <1>5, <2>1 DEF OpsShape, Reconciled, Tabular, IsRow, IsKey
  <2> QED BY <1>0, <1>5, <2>2, OpenAfter DEF OneOpen
<1> QED BY <1>1, <1>2, <1>3, <1>4, <1>5 DEF LedgerStep

\* While the coroutine is at work, its cycle asks nothing.
LEMMA NotAsking ==
  ASSUME CallInv, pc \notin Rest \cup Quiet, asked' = asked
  PROVE  AskedFits' /\ asked \notin {"collecting", "published"}
BY DEF CallInv, AskedFits

\* The ledger and the coroutine after a call is asked for.
LEMMA AskedAfter ==
  ASSUME CallInv, NEW key, Asked(key), pc \notin Rest \cup Quiet, asked' = asked
  PROVE  /\ LedgerStep /\ CallShape' /\ CallFits' /\ AskedFits'
         /\ pc' \in {"call", "apply", "error"} /\ call'.key = key /\ key[1] \in Stages
<1>1. LedgerStep /\ pc' \in {"call", "apply", "error"} /\ call'.key = key /\ key[1] \in Stages
  BY DEF Asked, LedgerStep, IsKey
<1>2. CallShape'
  BY DEF Asked, CallShape, InCall, Pcs
<1>3. AskedFits'
  BY NotAsking
<1>4. CASE pc' = "call" /\ OpenKeys = {} /\ Reserved(key)
  <2>1. OpenKeys' = {key}
    BY <1>4, OpenAfter
  <2>2. Is(key, "prepared")'
    BY <1>4 DEF Reserved, Is
  <2> QED BY <1>1, <1>2, <1>3, <1>4, <2>1, <2>2 DEF CallFits, Is, InCall, Quiet, Rest
<1>5. CASE pc' \in {"call", "apply"} /\ UNCHANGED ops /\ OpenKeys \subseteq {key}
  <2>1. OpenKeys' \subseteq {key} /\ (pc' = "call" => Is(key, "prepared"))
        /\ (pc' = "apply" => Is(key, "completed") \/ Is(key, "applied"))
    BY <1>5, OpenAfter DEF Asked, Reserved, Is
  <2>2. \A k \in OpenKeys' : ops'[k].st \in {"prepared", "completed"}
    BY <1>5, <2>1 DEF OpenKeys, OpenOp, Is
  <2> QED BY <1>1, <1>2, <1>3, <1>5, <2>1, <2>2 DEF CallFits, Is, InCall, Quiet, Rest
<1>6. CASE pc' = "error" /\ UNCHANGED ops
  BY <1>1, <1>2, <1>3, <1>6 DEF CallFits, Is, InCall, Quiet, Rest
<1> QED BY <1>4, <1>5, <1>6 DEF Asked

LEMMA RecoveredAfter ==
  ASSUME CallInv, NEW key, Recovered(key), pc \notin Rest \cup Quiet, asked' = asked,
         key[1] \notin Reviews
  PROVE  /\ LedgerStep /\ CallShape' /\ CallFits' /\ AskedFits'
         /\ pc' \in {"call", "apply"} /\ call'.key = key /\ IsKey(key)
<1>1. LedgerStep /\ pc' \in {"call", "apply"} /\ call'.key = key /\ key \in DOMAIN ops
  BY DEF Recovered, LedgerStep, OpenKeys
<1>2. IsKey(key)
  BY <1>1 DEF CallInv, OpsShape
<1>3. CallShape'
  BY <1>1, <1>2 DEF Recovered, CallShape, InCall, Pcs
<1>4. AskedFits'
  BY NotAsking
<1>5. OpenKeys' = {key} /\ (pc' = "call" => Is(key, "prepared")) /\ (pc' = "apply" => Is(key, "completed"))
  BY <1>1, OpenAfter DEF Recovered, CallInv, OneOpen, Is
<1>6. UNCHANGED ops
  BY DEF Recovered
<1> QED BY <1>1, <1>2, <1>3, <1>4, <1>5, <1>6 DEF CallFits, Is, InCall, Quiet, Rest

\* Steps that make no call and raise no question.
LEMMA PlainAfter ==
  ASSUME CallInv, UNCHANGED <<ops, call, asked>>, pc \notin Rest \cup Quiet \cup InCall \cup {"error"},
         pc' \in Pcs \ (InCall \cup Quiet \cup {"contest"})
  PROVE  LedgerStep /\ CallShape' /\ CallFits' /\ AskedFits'
<1>1. LedgerStep
  BY DEF LedgerStep
<1>2. CallShape'
  BY DEF CallInv, CallShape
<1>3. OpenKeys' = OpenKeys
  BY OpenAfter
<1>4. AskedFits'
  BY NotAsking
<1>5. CallFits'
  BY <1>3 DEF CallInv, CallFits, Is, InCall, Quiet
<1> QED BY <1>1, <1>2, <1>4, <1>5

\* The coroutine comes to an end, or the process does.
LEMMA EndAfter ==
  ASSUME CallInv, pc' \in Rest, call' = NoCall,
         UNCHANGED ops \/ (pc = "invoking" /\ \E to \in {"waiting", "ambiguous"} :
                             Moved(call.key, to) /\ Is(call.key, "invoking"))
  PROVE  /\ LedgerStep /\ CallShape' /\ CallFits'
         /\ UNCHANGED ops => OpenKeys' = OpenKeys
<1>1. CallShape' /\ CallFits'
  BY StageKinds DEF CallShape, CallFits, NoCall, Pcs, Rest, InCall, Quiet
<1>2. CASE UNCHANGED ops
  BY <1>1, <1>2, OpenAfter DEF LedgerStep
<1>3. CASE pc = "invoking" /\ \E to \in {"waiting", "ambiguous"} :
                                Moved(call.key, to) /\ Is(call.key, "invoking")
  <2>1. LedgerStep
    BY <1>3 DEF LedgerStep, Transitions, Is
  <2> QED BY <1>1, <1>3, <2>1, OpenAfter
<1> QED BY <1>2, <1>3

CallAfter == LedgerStep /\ CallShape' /\ CallFits' /\ AskedFits'

LEMMA EntriesAfter ==
  ASSUME CallInv, AddWork \/ AdjudicateContest \/ Start \/ StartAgain \/ ResumeContest \/ Resume
  PROVE  CallAfter
<1>1. CASE AddWork
  <2>1. pc = "add_work" /\ asked' = asked
    BY <1>1 DEF AddWork, tables
  <2>2. CASE OpenKeys # {} /\ Raise
    BY <1>1, <2>1, <2>2, PlainAfter DEF Raise, CallAfter, Rest, InCall, Quiet, Pcs
  <2>3. CASE Asked(<<"add_work", 0>>)
    BY <2>1, <2>3, AskedAfter DEF CallAfter, Rest, Quiet
  <2>4. CASE \E k \in OpenKeys : k[1] \in Planning /\ Recovered(k)
    BY <2>1, <2>4, RecoveredAfter, StageKinds DEF CallAfter, Rest, Quiet
  <2> QED BY <1>1, <2>2, <2>3, <2>4, AddWorkEffect
<1>2. CASE AdjudicateContest
  BY <1>2, AdjudicateEffect, AskedAfter DEF AdjudicateContest, CallAfter, Rest, Quiet
<1>3. CASE Start
  <2>1. pc = "start" /\ asked' = asked
    BY <1>3 DEF Start
  <2>2. CASE OpenKeys # {} /\ Raise
    BY <1>3, <2>1, <2>2, PlainAfter DEF Raise, CallAfter, Rest, InCall, Quiet, Pcs
  <2>3. CASE Asked(<<"planning", 0>>)
    BY <2>1, <2>3, AskedAfter DEF CallAfter, Rest, Quiet
  <2>4. CASE \E k \in OpenKeys : k[1] \in Planning /\ Recovered(k)
    BY <2>1, <2>4, RecoveredAfter, StageKinds DEF CallAfter, Rest, Quiet
  <2> QED BY <1>3, <2>2, <2>3, <2>4, StartEffect
<1>4. CASE StartAgain
  BY <1>4, PlainAfter DEF StartAgain, tables, CallAfter, Rest, InCall, Quiet, Pcs
<1>5. CASE ResumeContest
  BY <1>5, ResumeContestEffect, RecoveredAfter, StageKinds DEF ResumeContest, CallAfter, Rest, Quiet
<1>6. CASE Resume
  BY <1>6, PlainAfter DEF Resume, CallAfter, Rest, InCall, Quiet, Pcs
<1> QED BY <1>1, <1>2, <1>3, <1>4, <1>5, <1>6

LEMMA CallsAfter ==
  ASSUME CallInv, \/ BeginAttempt \/ MarkFailed \/ Invalid \/ Error \/ Park \/ Ambiguous
                  \/ \E a \in Answers(call.key[1]) : Complete(a)
  PROVE  CallAfter
<1>0. pc \in InCall => IsKey(call.key) /\ OpenKeys \subseteq {call.key}
  BY DEF CallInv, CallShape, CallFits
<1>1. CASE BeginAttempt
  <2>1. Is(call.key, "prepared") /\ Moved(call.key, "invoking") /\ UNCHANGED <<call, asked>>
        /\ pc = "call" /\ pc' = "invoking"
    BY <1>1, AttemptEffect DEF BeginAttempt, tables
  <2>2. LedgerStep
    BY <2>1 DEF LedgerStep, Transitions, Is
  <2>3. Is(call.key, "invoking")' /\ OpenKeys' \subseteq {call.key}
    BY <1>0, <2>1, OpenAfter DEF Moved, Is, InCall
  <2>4. CallShape' /\ CallFits' /\ AskedFits'
    BY <2>1, <2>3 DEF CallInv, CallShape, CallFits, AskedFits, InCall, Quiet, Rest, Pcs
  <2> QED BY <2>2, <2>4 DEF CallAfter
<1>2. CASE MarkFailed
  <2>1. Is(call.key, "invoking") /\ Moved(call.key, "failed") /\ UNCHANGED <<call, asked>>
        /\ pc = "invoking" /\ pc' = "invalid"
    BY <1>2, AttemptEffect DEF MarkFailed, tables
  <2>2. LedgerStep
    BY <2>1 DEF LedgerStep, Transitions, Is
  <2>3. Is(call.key, "failed")' /\ OpenKeys' = {}
    BY <1>0, <2>1, OpenAfter DEF Moved, Is, InCall, OpenOp
  <2>4. CallShape' /\ CallFits' /\ AskedFits'
    BY <2>1, <2>3 DEF CallInv, CallShape, CallFits, AskedFits, InCall, Quiet, Rest, Pcs
  <2> QED BY <2>2, <2>4 DEF CallAfter
<1>3. CASE Invalid
  <2>1. pc = "invalid" /\ asked' = asked /\ ~(asked \in {"collecting", "published"})
    BY <1>3 DEF Invalid, tables, CallInv, AskedFits, Quiet, Rest
  <2>2. CASE \E k : Asked(k)
    BY <2>1, <2>2, AskedAfter DEF CallAfter, Rest, Quiet
  <2>3. CASE UNCHANGED <<ops, call>> /\ pc' \in {"verdict", "error"}
    <3>1. OpenKeys' = {}
      BY <1>3, <2>3, InvalidEffect, OpenAfter
    <3> QED BY <2>1, <2>3, <3>1
            DEF CallAfter, LedgerStep, CallInv, CallShape, CallFits, AskedFits, InCall, Quiet, Rest, Pcs
  <2>4. Asked(RepairKey(call.key)) => \E k : Asked(k)
    <3> DEFINE key == RepairKey(call.key)
    <3>1. \A k : k = key /\ Asked(key) => Asked(k)
      BY DEF Asked, Reserved, Is, IsKey
    <3> QED BY <3>1
  <2> QED BY <1>3, <2>2, <2>3, <2>4, InvalidEffect
<1>4. CASE Error
  BY <1>4, EndAfter, NotAsking DEF Error, Ends, CallAfter, Rest, Quiet
<1>5. CASE Park
  <2>1. Is(call.key, "invoking") /\ pc = "invoking" /\ asked' = asked
        /\ ~(asked \in {"collecting", "published"})
    BY <1>5, AttemptEffect DEF Park, CallInv, AskedFits, Quiet, Rest
  <2>2. CASE Moved(call.key, "waiting") /\ Ends
    BY <2>1, <2>2, EndAfter, NotAsking DEF Ends, CallAfter, Rest, Quiet
  <2>3. CASE Raise
    BY <2>1, <2>3 DEF Raise, CallAfter, LedgerStep, CallInv, CallShape, CallFits, AskedFits, InCall,
                      Quiet, Rest, Pcs
  <2> QED BY <1>5, <2>2, <2>3, AttemptEffect
<1>6. CASE Ambiguous
  BY <1>6, AttemptEffect, EndAfter, NotAsking DEF Ambiguous, Ends, CallAfter, Rest, Quiet
<1>7. ASSUME NEW a \in Answers(call.key[1]), Complete(a) PROVE CallAfter
  <2>1. Is(call.key, "invoking") /\ Stored(call.key, a) /\ UNCHANGED <<call, asked>>
        /\ pc = "invoking" /\ pc' = "apply"
    BY <1>7, CompleteEffect DEF Complete, tables
  <2>2. LedgerStep
    BY <1>7, <2>1 DEF LedgerStep, Is
  <2>3. Is(call.key, "completed")' /\ OpenKeys' \subseteq {call.key}
    BY <1>0, <2>1, OpenAfter DEF Stored, Is, InCall
  <2>4. \A k \in OpenKeys' : ops'[k].st \in {"prepared", "completed"}
    BY <2>1, <2>3 DEF Is
  <2>5. CallShape' /\ CallFits' /\ AskedFits'
    BY <2>1, <2>3, <2>4 DEF CallInv, CallShape, CallFits, AskedFits, InCall, Quiet, Rest, Pcs
  <2> QED BY <2>2, <2>5 DEF CallAfter
<1> QED BY <1>1, <1>2, <1>3, <1>4, <1>5, <1>6, <1>7

LEMMA AppliedAfter ==
  ASSUME CallInv, pc = "apply", Applied, UNCHANGED <<call, asked>>,
         pc' \in {"resume", "negotiate", "execute", "settle", "raise", "verdict", "review"}
  PROVE  CallAfter /\ OpenKeys' = {}
<1>1. CASE Is(call.key, "completed") /\ Moved(call.key, "applied")
  <2>1. OpenKeys' = {} /\ LedgerStep
    BY <1>1, ApplyEffect, OpenAfter DEF LedgerStep, Transitions, Is, OpenOp
  <2> QED BY <2>1 DEF CallAfter, CallInv, CallShape, CallFits, AskedFits, InCall, Quiet, Rest, Pcs
<1>2. CASE Is(call.key, "applied") /\ UNCHANGED ops
  <2>1. OpenKeys' = {} /\ LedgerStep
    BY <1>2, ApplyEffect, OpenAfter DEF LedgerStep, Is, OpenOp, OpenKeys
  <2> QED BY <2>1 DEF CallAfter, CallInv, CallShape, CallFits, AskedFits, InCall, Quiet, Rest, Pcs
<1> QED BY <1>1, <1>2, ApplyEffect

LEMMA AppliesAfter ==
  ASSUME CallInv, ApplyPlan \/ ApplyContestVerdict \/ ApplyPlanReview
  PROVE  CallAfter /\ OpenKeys' = {}
<1>1. CASE ApplyPlan
  <2>1. pc' \in {"resume", "negotiate", "execute"}
    BY <1>1 DEF ApplyPlan, AfterPlan
  <2> QED BY <1>1, <2>1, AppliedAfter DEF ApplyPlan
<1>2. CASE ApplyContestVerdict
  <2>1. ops[call.key].answer \in {"amend", "reject", "ask_back"}
    BY <1>2, ApplyEffect, StageKinds DEF ApplyContestVerdict, Answers
  <2>2. pc' \in {"resume", "settle", "raise"}
    BY <1>2, <2>1 DEF ApplyContestVerdict, AfterVerdict
  <2> QED BY <1>2, <2>2, AppliedAfter DEF ApplyContestVerdict
<1>3. CASE ApplyPlanReview
  BY <1>3, AppliedAfter DEF ApplyPlanReview
<1> QED BY <1>1, <1>2, <1>3

LEMMA NegotiationAfter ==
  ASSUME CallInv, \/ ResumeReplan \/ ReplanAgain \/ CreateRevision \/ ContinueRevision
                  \/ AskReview \/ Decide \/ Discard \/ Abandon \/ Execute
  PROVE  CallAfter
<1>1. CASE \E k : Asked(k) /\ pc \in {"negotiate", "review", "discard"} /\ asked' = asked
  BY <1>1, AskedAfter DEF CallAfter, Rest, Quiet
<1>2. CASE /\ UNCHANGED <<ops, call, asked>>
           /\ pc \in {"negotiate", "review", "verdict", "discard", "abandon", "execute"}
           /\ pc' \in {"error", "review", "verdict", "execute", "discard", "abandon"}
  <2>1. ~(asked \in {"collecting", "published"})
    BY <1>2 DEF CallInv, AskedFits, Quiet, Rest
  <2>2. LedgerStep /\ CallShape' /\ CallFits' /\ AskedFits'
    BY <1>2, <2>1, PlainAfter DEF Rest, InCall, Quiet, Pcs
  <2> QED BY <2>2 DEF CallAfter
<1>3. CASE ResumeReplan
  BY <1>1, <1>2, <1>3, ResumeReplanEffect DEF ResumeReplan, Raise, tables
<1>4. CASE ReplanAgain
  <2>1. CASE UNCHANGED <<ops, call>> /\ pc' \in {"abandon", "error"}
    BY <1>2, <1>4, <2>1 DEF ReplanAgain, tables
  <2>2. CASE \E r \in Superseded : r = Max(Superseded) /\ Asked(ReplanKey(r))
    <3>1. PICK r \in Superseded : Asked(ReplanKey(r))
      BY <2>2
    <3>2. \E k : Asked(k)
      <4> DEFINE key == ReplanKey(r)
      <4>1. \A k : k = key /\ Asked(key) => Asked(k)
        BY DEF Asked, Reserved, Is, IsKey
      <4> QED BY <3>1, <4>1
    <3> QED BY <1>1, <1>4, <3>2 DEF ReplanAgain, tables
  <2> QED BY <1>4, <2>1, <2>2, ReplanAgainEffect
<1>5. CASE CreateRevision
  BY <1>2, <1>5 DEF CreateRevision
<1>6. CASE ContinueRevision
  BY <1>2, <1>6 DEF ContinueRevision, tables
<1>7. CASE AskReview
  <2>1. CASE pc' = "verdict" /\ UNCHANGED <<ops, call>>
    BY <1>2, <1>7, <2>1 DEF AskReview, tables
  <2>2. CASE \E k : Asked(k)
    BY <1>1, <1>7, <2>2 DEF AskReview, tables
  <2> QED BY <1>7, <2>1, <2>2, AskReviewEffect
<1>8. CASE Decide
  <2>1. pc' \in {"execute", "abandon", "discard"}
    BY <1>8 DEF Decide
  <2> QED BY <1>2, <1>8, <2>1 DEF Decide
<1>9. CASE Discard
  <2>1. CASE UNCHANGED <<ops, call, pc>>
    BY <1>2, <1>9, <2>1 DEF Discard
  <2>2. CASE \E r \in Superseded : r = Max(Superseded) /\ Asked(ReplanKey(r))
    <3>1. PICK r \in Superseded : Asked(ReplanKey(r))
      BY <2>2
    <3>2. \E k : Asked(k)
      <4> DEFINE key == ReplanKey(r)
      <4>1. \A k : k = key /\ Asked(key) => Asked(k)
        BY DEF Asked, Reserved, Is, IsKey
      <4> QED BY <3>1, <4>1
    <3> QED BY <1>1, <1>9, <3>2 DEF Discard
  <2> QED BY <1>9, <2>1, <2>2, DiscardEffect
<1>10. CASE Abandon
  <2>1. CASE UNCHANGED <<pc, call>>
    BY <1>2, <1>10, <2>1 DEF Abandon
  <2>2. CASE Ends
    BY <1>10, <2>2, EndAfter, NotAsking DEF Abandon, Ends, CallAfter, Rest, Quiet
  <2> QED BY <1>10, <2>1, <2>2 DEF Abandon
<1>11. CASE Execute
  BY <1>11, EndAfter, NotAsking DEF Execute, Ends, CallAfter, Rest, Quiet
<1> QED BY <1>3, <1>4, <1>5, <1>6, <1>7, <1>8, <1>9, <1>10, <1>11

LEMMA RestAfter ==
  ASSUME CallInv, \/ RaiseDecision \/ SettleContest \/ Crash \/ Restart
                  \/ Reclaim \/ UserResumes \/ UserAnswers
  PROVE  CallAfter
<1>1. CASE RaiseDecision
  <2>1. /\ pc = "raise" /\ pc' \in Quiet /\ UNCHANGED <<ops, call>> /\ OpenKeys = {}
        /\ \/ asked' = "collecting" /\ pc' = "raise"
           \/ asked' = "published" /\ cycle' = "waiting_for_user"
    BY <1>1 DEF RaiseDecision, CallInv, CallFits, Quiet, BothBecome
  <2>2. OpenKeys' = {}
    BY <2>1, OpenAfter
  <2> QED BY <2>1, <2>2 DEF CallAfter, LedgerStep, CallInv, CallShape, CallFits, AskedFits, InCall,
                            Quiet, Rest, Pcs
<1>2. CASE SettleContest
  <2>1. LedgerStep /\ CallShape' /\ CallFits' /\ OpenKeys' = OpenKeys
    BY <1>2, EndAfter DEF SettleContest, Ends, Rest
  <2>2. asked' = asked /\ (asked = "published" => cycle' = cycle) /\ pc = "settle" /\ pc' = "idle"
    BY <1>2 DEF SettleContest, Ends, CallInv, AskedFits, status
  <2> QED BY <2>1, <2>2 DEF CallInv, AskedFits, CallAfter, Rest
<1>3. CASE Crash
  <2>1. LedgerStep /\ CallShape' /\ CallFits' /\ OpenKeys' = OpenKeys
    BY <1>3, EndAfter DEF Crash, Rest
  <2>2. asked' = asked /\ cycle' = cycle /\ pc' = "down"
    BY <1>3 DEF Crash, tables, status
  <2> QED BY <2>1, <2>2 DEF CallInv, AskedFits, CallAfter, Rest
<1>4. CASE Restart
  <2>0. pc = "down" /\ Reconciled /\ UNCHANGED call /\ OpenKeys' = OpenKeys
    BY <1>4, RestartEffect, OpenAfter
  <2>1. LedgerStep
    BY <2>0 DEF LedgerStep
  <2>2. CASE \E k \in OpenKeys : /\ ops[k].st \in {"prepared", "completed"} /\ Continue(k)
                                 /\ UNCHANGED <<ops, run, cycle, asked>>
    <3>1. pc' \in {"add_work", "resume"}
      BY <2>2 DEF Continue
    <3>2. \A k \in OpenKeys' : ops'[k].st \in {"prepared", "completed"}
      BY <2>0, <2>2 DEF CallInv, OneOpen
    <3>3. asked' = asked /\ ~(asked \in {"collecting", "published"})
      BY <2>2 DEF CallInv, AskedFits
    <3> QED BY <2>0, <2>1, <3>1, <3>2, <3>3
            DEF CallAfter, CallInv, CallShape, CallFits, AskedFits, InCall, Quiet, Rest, Pcs
  <2>3. CASE /\ pc' = "idle" /\ asked' = (IF asked = "collecting" THEN "published" ELSE asked)
             /\ \/ \E k \in OpenKeys : ops[k].st = "invoking"
                \/ asked = "collecting" /\ BothBecome("waiting_for_user")
                \/ /\ asked # "collecting"
                   /\ cycle' = (IF cycle \in {"queued", "running"} THEN "interrupted" ELSE cycle)
    <3>1. asked' = "published" => cycle' = "waiting_for_user"
      BY <2>3 DEF CallInv, AskedFits, BothBecome
    <3> QED BY <2>0, <2>1, <2>3, <3>1
       DEF CallAfter, CallInv, CallShape, CallFits, AskedFits, InCall, Quiet, Rest, Pcs
  <2> QED BY <1>4, <2>2, <2>3, RestartEffect
<1>5. CASE Reclaim
  <2>1. PICK k \in OpenKeys :
          ops[k].st \in {"waiting", "ambiguous"} /\ Moved(k, "prepared") /\ Continue(k) /\ pc = "idle"
    BY <1>5, ReclaimEffect
  <2>2. pc' \in {"add_work", "resume"} /\ k \in DOMAIN ops /\ UNCHANGED <<asked, call>>
    BY <1>5, <2>1 DEF Continue, OpenKeys, Reclaim
  <2>3. OpenKeys = {k} /\ OpenKeys' = {k} /\ ops'[k].st = "prepared"
    BY <2>1, <2>2, OpenAfter DEF CallInv, OneOpen, OpenOp, Moved
  <2>4. LedgerStep
    BY <2>1, <2>2 DEF LedgerStep, Transitions
  <2> QED BY <2>1, <2>2, <2>3, <2>4
          DEF CallAfter, CallInv, CallShape, CallFits, AskedFits, InCall, Quiet, Rest, Pcs
<1>6. CASE UserResumes
  <2>1. pc' = "resume" /\ UNCHANGED <<ops, call, asked>> /\ OpenKeys = {} /\ OpenKeys' = {} /\ pc = "idle"
        /\ LedgerStep
    BY <1>6, OpenAfter DEF UserResumes, tables, LedgerStep
  <2>2. asked \notin {"collecting", "published"}
    BY <1>6 DEF UserResumes, CallInv, AskedFits
  <2> QED BY <2>1, <2>2 DEF CallAfter, CallInv, CallShape, CallFits, AskedFits, InCall, Quiet, Rest, Pcs
<1>7. CASE UserAnswers
  <2>1. pc' = "resume" /\ UNCHANGED <<ops, call>> /\ OpenKeys = {} /\ OpenKeys' = {} /\ pc = "idle"
        /\ LedgerStep /\ asked' = "answered"
    BY <1>7, OpenAfter DEF UserAnswers, LedgerStep, CallInv, AskedFits
  <2> QED BY <2>1 DEF CallAfter, CallInv, CallShape, CallFits, AskedFits, InCall, Quiet, Rest, Pcs
<1> QED BY <1>1, <1>2, <1>3, <1>4, <1>5, <1>6, <1>7

-----------------------------------------------------------------------------
(* The plan: what the ledger, the revisions and the tasks say of each other *)

Newest == Len(revs)
Unplanned == tasks = <<>> /\ revs = <<>>
FirstPlans ==
  {<<"planning", 0>>, <<"planning_repair", 1>>, <<"add_work", 0>>, <<"planning_repair", 2>>}
Replans(r) == {ReplanKey(r), RepairKey(ReplanKey(r))}
ReviewKeys(r, i) == {ReviewKey(r, i), RepairKey(ReviewKey(r, i))}

\* A planning call is a first one or replaces a refused plan; a review is of a plan there
\* is; a review is repaired when it failed; an answered plan left its tasks.
KeyFits(k) ==
  /\ k[1] \in Planning => k \in FirstPlans \/ \E r \in Superseded : k \in Replans(r)
  /\ k[1] \in Reviews => \E r \in DOMAIN revs, i \in Approvers : k \in ReviewKeys(r, i)
  /\ k[1] = "review_repair" => Is(<<"review", k[2]>>, "failed")
  /\ k[1] \in Planning /\ ops[k].st = "applied" => tasks # <<>>
KeysFit == \A k \in DOMAIN ops : KeyFits(k)

\* A call that is open, or that the coroutine makes, is about the plan as it stands.
Current(k) ==
  /\ k \in FirstPlans \/ k[1] \in Contests => Unplanned
  /\ k[1] \in Planning /\ k \notin FirstPlans =>
       Newest \in Superseded /\ k \in Replans(Newest) /\ Live = {}
  /\ k[1] \in Reviews => Newest \in Active /\ \E i \in Unreviewed(Newest) : k \in ReviewKeys(Newest, i)
CurrentFits ==
  /\ \A k \in OpenKeys : Current(k)
  /\ pc \in InCall => Current(call.key)
  /\ pc = "apply" /\ call.key[1] \in Reviews => Is(call.key, "completed")

\* an owner objected, or could not be heard
Doomed(r) ==
  \E i \in Approvers : revs[r].reviews[i] = "object" \/ Is(RepairKey(ReviewKey(r, i)), "failed")
\* Only the newest plan can be under negotiation or approved, and its tasks are the live ones.
RevFits(r) ==
  /\ r # Newest => revs[r].status \in {"superseded", "abandoned"}
  /\ revs[r].status = "superseded" => r < MaxRevisions
  /\ revs[r].status = "abandoned" => r >= MaxRevisions
  /\ revs[r].status = "awaiting_approval" =>
       IF Doomed(r) THEN Live \subseteq revs[r].tasks ELSE Live = revs[r].tasks
  /\ revs[r].status = "approved" =>
       Live = revs[r].tasks /\ \A i \in Approvers : revs[r].reviews[i] = "approve"
  /\ revs[r].status = "abandoned" /\ r = Newest => Live = {}
RevsFit ==
  /\ Newest <= MaxRevisions /\ (~Negotiation \/ tasks = <<>> => revs = <<>>)
  /\ \A r \in DOMAIN revs : RevFits(r)
  /\ \A t \in DOMAIN tasks \ Live : \E r \in DOMAIN revs : t \in revs[r].tasks

\* What the coroutine may count on between two steps.
PhaseFits ==
  /\ Approved # {} => pc \in {"resume", "execute"} \cup Rest /\ OpenKeys = {}
  /\ pc \in {"start", "add_work", "contest", "raise", "settle"} => Unplanned
  /\ pc \in {"verdict", "discard", "abandon", "execute", "raise", "settle"} => OpenKeys = {}
  /\ pc \in {"negotiate", "review", "verdict", "discard", "abandon"} => Negotiation /\ tasks # <<>>
  /\ pc \in {"review", "verdict"} => Newest \in Active
  /\ pc = "verdict" => Doomed(Newest) \/ Unreviewed(Newest) = {}
  /\ pc = "discard" => /\ Newest \in Superseded /\ Live \subseteq revs[Newest].tasks
                       /\ ReplanKey(Newest) \notin DOMAIN ops
  /\ pc = "abandon" => IF Active # {} THEN Doomed(Newest) /\ Newest >= MaxRevisions ELSE Live = {}
  /\ pc = "execute" /\ Negotiation => Approved # {}

\* A task is carried out only by the cycle that completes; a question is asked before any
\* task is made.
DoneFits ==
  /\ (\E t \in DOMAIN tasks : tasks[t] = "completed") =>
       pc \in Rest /\ OpenKeys = {} /\ run = "completed" /\ cycle = "completed"
  /\ asked \in {"collecting", "published"} => tasks = <<>>

TablesFit == KeysFit /\ RevsFit /\ ReviewsMatchLedger
PlanInv == CallInv /\ TablesFit /\ CurrentFits /\ PhaseFits /\ DoneFits

-----------------------------------------------------------------------------
(* Which call a key stands for                                             *)

\* The ordinals of the owners leave no key for two reviews.
LEMMA ReviewsDiffer ==
  ASSUME NEW r \in Nat, NEW s \in Nat, NEW i \in Approvers, NEW j \in Approvers
  PROVE  /\ ReviewKey(r, i) = ReviewKey(s, j) => r = s /\ i = j
         /\ RepairKey(ReviewKey(r, i)) = RepairKey(ReviewKey(s, j)) => r = s /\ i = j
         /\ ReviewKey(r, i) # RepairKey(ReviewKey(s, j))
         /\ ReviewOf(ReviewKey(r, i)) = [rev |-> r, agent |-> i]
         /\ ReviewOf(RepairKey(ReviewKey(r, i))) = [rev |-> r, agent |-> i]
<1>1. i \in Int /\ j \in Int /\ 1 <= i /\ 1 <= j /\ i <= 100 /\ j <= 100
  BY PlanConstants, ApproversAreKeyable DEF Approvers, Stride
<1>2. r * 100 + i - 1 = s * 100 + j - 1 => r = s /\ i = j
  BY <1>1
<1>3. (r * 100 + i - 1) \div 100 = r /\ (r * 100 + i - 1) % 100 = i - 1
  BY <1>1
<1>4. /\ ReviewKey(r, i) = <<"review", r * 100 + i - 1>> /\ ReviewKey(s, j) = <<"review", s * 100 + j - 1>>
      /\ RepairKey(ReviewKey(r, i)) = <<"review_repair", r * 100 + i - 1>>
      /\ RepairKey(ReviewKey(s, j)) = <<"review_repair", s * 100 + j - 1>>
  BY DEF ReviewKey, RepairKey, Stride
<1>5. (i - 1) + 1 = i
  BY <1>1
<1> QED BY <1>2, <1>3, <1>4, <1>5 DEF ReviewOf, Stride

LEMMA SameReview ==
  ASSUME NEW r \in Nat, NEW s \in Nat, NEW i \in Approvers, NEW j \in Approvers,
         NEW k \in ReviewKeys(r, i), k \in ReviewKeys(s, j)
  PROVE  r = s /\ i = j /\ k[1] \in Reviews /\ ReviewOf(k) = [rev |-> r, agent |-> i]
<1>1. k[1] \in Reviews
  BY MadeKeys, StageKinds DEF ReviewKeys
<1> QED BY <1>1, ReviewsDiffer DEF ReviewKeys

LEMMA ReplansDiffer ==
  ASSUME NEW r \in Nat
  PROVE  /\ \A s \in Nat : ReplanKey(r) = ReplanKey(s) => r = s
         /\ \A s \in Nat : ReplanKey(r) \in Replans(s) => r = s
         /\ \A k \in Replans(r) : k[1] \in Planning /\ (r # 0 => k \notin FirstPlans /\ ReplanSource(k) = r)
         /\ \A k \in Replans(r) : k[1] \notin Repairs => RepairKey(k) \in Replans(r)
<1>1. ReplanKey(r) = <<"planning", 10 * (r + 1)>>
      /\ RepairKey(ReplanKey(r)) = <<"planning_repair", 10 * (r + 1) + 1>>
  BY DEF ReplanKey, RepairKey
<1>2. \A s \in Nat : ReplanKey(r) = ReplanKey(s) => r = s
  BY DEF ReplanKey
<1>3. \A s \in Nat : ReplanKey(r) # RepairKey(ReplanKey(s))
  BY DEF ReplanKey, RepairKey
<1>4. \A k \in Replans(r) : k[1] \in Planning
  BY <1>1 DEF Replans, Planning
<1>5. ASSUME r # 0 PROVE \A k \in Replans(r) : k \notin FirstPlans
  BY <1>1, <1>5 DEF Replans, FirstPlans
<1>6. ReplanSource(<<"planning", 10 * (r + 1)>>) = r
  <2>1. 10 * (r + 1) >= 10 /\ (10 * (r + 1)) % 10 = 0 /\ ((10 * (r + 1)) \div 10) - 1 = r
    OBVIOUS
  <2> QED BY <2>1 DEF ReplanSource, Planning
<1>7. ReplanSource(<<"planning_repair", 10 * (r + 1) + 1>>) = r
  <2>1. /\ (10 * (r + 1) + 1) - 1 >= 10 /\ ((10 * (r + 1) + 1) - 1) % 10 = 0
        /\ (((10 * (r + 1) + 1) - 1) \div 10) - 1 = r
    OBVIOUS
  <2> QED BY <2>1 DEF ReplanSource, Planning
<1>8. \A k \in Replans(r) : k[1] \notin Repairs => RepairKey(k) \in Replans(r)
  BY <1>1 DEF Replans, Repairs
<1> QED BY <1>1, <1>2, <1>3, <1>4, <1>5, <1>6, <1>7, <1>8 DEF Replans

LEMMA FirstPlansAre ==
  /\ \A k \in FirstPlans : k[1] \in Planning /\ ReplanSource(k) = 0
  /\ \A k \in FirstPlans : k[1] \notin Repairs => RepairKey(k) \in FirstPlans
BY DEF FirstPlans, Planning, ReplanSource, Repairs, RepairKey

-----------------------------------------------------------------------------
(* Steps that only touch the ledger                                        *)

LEMMA SameTables ==
  ASSUME UNCHANGED <<tasks, revs>>
  PROVE  /\ Live' = Live /\ Active' = Active /\ Superseded' = Superseded /\ Approved' = Approved
         /\ Newest' = Newest /\ (Unplanned' <=> Unplanned)
         /\ \A r : Unreviewed(r)' = Unreviewed(r)
         /\ \A k : Current(k)' <=> Current(k)
<1>1. /\ Live' = Live /\ Active' = Active /\ Superseded' = Superseded /\ Approved' = Approved
      /\ Newest' = Newest /\ (Unplanned' <=> Unplanned)
  BY DEF Live, Active, Superseded, Approved, Newest, Unplanned
<1>2. \A r : Unreviewed(r)' = Unreviewed(r)
  BY DEF Unreviewed
<1>3. ASSUME NEW k PROVE Current(k)' <=> Current(k)
  BY <1>1, <1>2 DEF Current
<1> QED BY <1>1, <1>2, <1>3

\* No answer is applied and no failed call comes back.
Quietly ==
  /\ \A k \in DOMAIN ops : ops[k].st \in {"failed", "applied"} => k \in DOMAIN ops' /\ ops'[k] = ops[k]
  /\ \A k \in DOMAIN ops' : ops'[k].st = "applied" => k \in DOMAIN ops /\ ops[k].st = "applied"

LEMMA LedgerOnly ==
  ASSUME PlanInv, UNCHANGED <<tasks, revs>>, Quietly,
         \A k \in DOMAIN ops' \ DOMAIN ops : KeyFits(k)'
  PROVE  TablesFit'
<1>0. TablesFit
  BY DEF PlanInv
<1>1. ASSUME NEW k \in DOMAIN ops' PROVE KeyFits(k)'
  <2>1. CASE k \notin DOMAIN ops
    BY <1>1, <2>1
  <2>2. CASE k \in DOMAIN ops
    <3>1. KeyFits(k)
      BY <1>0, <2>2 DEF TablesFit, KeysFit
    <3>2. Is(<<"review", k[2]>>, "failed") => Is(<<"review", k[2]>>, "failed")'
      BY DEF Quietly, Is
    <3>3. ops'[k].st = "applied" => ops[k].st = "applied"
      BY <1>1 DEF Quietly
    <3> QED BY <3>1, <3>2, <3>3, SameTables DEF KeyFits
  <2> QED BY <2>1, <2>2
<1>2. ASSUME NEW r \in DOMAIN revs PROVE RevFits(r)'
  <2>1. RevFits(r)
    BY <1>0, <1>2 DEF TablesFit, RevsFit
  <2>2. Doomed(r) => Doomed(r)'
    BY DEF Doomed, Quietly, Is
  <2> QED BY <2>1, <2>2, SameTables DEF RevFits
<1>3. RevsFit'
  <2>1. \A r \in DOMAIN revs' : RevFits(r)'
    BY <1>2
  <2> QED BY <1>0, <2>1, SameTables DEF TablesFit, RevsFit
<1>4. ReviewsMatchLedger'
  <2> SUFFICES ASSUME NEW r \in DOMAIN revs, NEW i \in Approvers
               PROVE  LET keys == {ReviewKey(r, i), RepairKey(ReviewKey(r, i))}
                          given == {k \in keys \cap DOMAIN ops' : ops'[k].st = "applied"}
                      IN \/ revs[r].reviews[i] = "none" /\ given = {}
                         \/ \E k \in given : given = {k} /\ ops'[k].answer = revs[r].reviews[i]
    BY DEF ReviewsMatchLedger
  <2> DEFINE keys == {ReviewKey(r, i), RepairKey(ReviewKey(r, i))}
             given == {k \in keys \cap DOMAIN ops : ops[k].st = "applied"}
             after == {k \in keys \cap DOMAIN ops' : ops'[k].st = "applied"}
  <2>1. \/ revs[r].reviews[i] = "none" /\ given = {}
        \/ \E k \in given : given = {k} /\ ops[k].answer = revs[r].reviews[i]
    BY <1>0 DEF TablesFit, ReviewsMatchLedger
  <2>2. after = given /\ \A k \in given : ops'[k] = ops[k]
    <3> HIDE DEF keys
    <3> QED BY DEF Quietly
  <2> HIDE DEF given, after
  <2>3. \/ revs[r].reviews[i] = "none" /\ after = {}
        \/ \E k \in after : after = {k} /\ ops'[k].answer = revs[r].reviews[i]
    BY <2>1, <2>2
  <2> QED BY <2>3 DEF after
<1> QED BY <1>1, <1>3, <1>4 DEF TablesFit, KeysFit

LEMMA QuietMoves ==
  ASSUME CallInv
  PROVE  /\ UNCHANGED ops => Quietly /\ DOMAIN ops' = DOMAIN ops
         /\ Reconciled => Quietly /\ DOMAIN ops' = DOMAIN ops
         /\ \A k : Reserved(k) => Quietly
         /\ \A k \in DOMAIN ops : \A a : Is(k, "invoking") /\ Stored(k, a) => Quietly /\ DOMAIN ops' = DOMAIN ops
         /\ \A k \in DOMAIN ops : \A to : <<ops[k].st, to>> \in Transitions /\ to # "applied" /\ Moved(k, to)
              => Quietly /\ DOMAIN ops' = DOMAIN ops
<1>1. UNCHANGED ops => Quietly /\ DOMAIN ops' = DOMAIN ops
  BY DEF Quietly
<1>2. Reconciled => Quietly /\ DOMAIN ops' = DOMAIN ops
  BY DEF Quietly, Reconciled
<1>3. ASSUME NEW k, Reserved(k) PROVE Quietly
  BY <1>3 DEF Quietly, Reserved
<1>4. ASSUME NEW k \in DOMAIN ops, NEW a, Is(k, "invoking"), Stored(k, a)
      PROVE  Quietly /\ DOMAIN ops' = DOMAIN ops
  BY <1>4 DEF Quietly, Stored, Is
<1>5. ASSUME NEW k \in DOMAIN ops, NEW to, <<ops[k].st, to>> \in Transitions, to # "applied", Moved(k, to)
      PROVE  Quietly /\ DOMAIN ops' = DOMAIN ops
  <2>1. ops[k].st \notin {"failed", "applied"} /\ ops'[k].st # "applied"
    BY <1>5 DEF Transitions, Moved
  <2> QED BY <1>5, <2>1 DEF Quietly, Moved
<1> QED BY <1>1, <1>2, <1>3, <1>4, <1>5

\* A plan that was approved is not under negotiation, and has no call.
LEMMA CurrentIsUnapproved ==
  ASSUME PlanInv, NEW k, Current(k), k[1] \in Stages
  PROVE  Approved = {} /\ ((k[1] \in Planning \cup Contests) => Active = {})
<1>1. \A r \in DOMAIN revs : r # Newest => revs[r].status \in {"superseded", "abandoned"}
  BY DEF PlanInv, TablesFit, RevsFit, RevFits
<1>2. CASE Unplanned
  BY <1>2 DEF Unplanned, Approved, Active
<1>3. CASE Newest \in Superseded
  BY <1>1, <1>3 DEF Approved, Active, Superseded
<1>4. CASE Newest \in Active /\ k[1] \in Reviews
  BY <1>1, <1>4, StageKinds DEF Approved, Active
<1> QED BY <1>2, <1>3, <1>4, StageKinds DEF Current, Stages

\* A call the coroutine is about to make, or whose answer it applies.
LEMMA PlanAsked ==
  ASSUME PlanInv, NEW key, Asked(key), Current(key), pc \notin Rest \cup Quiet,
         key[1] = "review_repair" => Is(<<"review", key[2]>>, "failed"),
         UNCHANGED <<tasks, revs, asked>>
  PROVE  TablesFit' /\ CurrentFits' /\ PhaseFits' /\ DoneFits'
<1>0. CallInv /\ IsKey(key) /\ key[1] \in Stages /\ call'.key = key /\ pc' \in {"call", "apply", "error"}
  BY DEF PlanInv, Asked, IsKey
<1>1. Quietly /\ DOMAIN ops' \subseteq DOMAIN ops \cup {key}
      /\ (key \notin DOMAIN ops /\ key \in DOMAIN ops' => ops'[key].st = "prepared")
  BY <1>0, QuietMoves DEF Asked, Reserved
<1>2. key \in DOMAIN ops' \ DOMAIN ops => KeyFits(key)'
  <2>1. key[1] \in Planning => key \in FirstPlans \/ \E r \in Superseded' : key \in Replans(r)
    BY SameTables DEF Current
  <2>2. key[1] \in Reviews => \E r \in DOMAIN revs', i \in Approvers : key \in ReviewKeys(r, i)
    BY DEF Current, Active, Unreviewed
  <2>3. key[1] = "review_repair" => Is(<<"review", key[2]>>, "failed")'
    BY <1>1 DEF Quietly, Is
  <2> QED BY <1>1, <2>1, <2>2, <2>3 DEF KeyFits
<1>3. TablesFit'
  BY <1>1, <1>2, LedgerOnly
<1>4. OpenKeys' \subseteq OpenKeys \cup {key}
  BY <1>0, OpenAfter DEF Asked
<1>5. ASSUME pc' = "apply", key[1] \in Reviews PROVE Is(key, "completed")'
  <2>1. PICK i \in Unreviewed(Newest) : key \in ReviewKeys(Newest, i) /\ Newest \in DOMAIN revs /\ i \in Approvers
    BY <1>5 DEF Current, Active, Unreviewed
  <2>2. revs[Newest].reviews[i] = "none"
    BY <2>1 DEF Unreviewed
  <2>3. \A k \in {ReviewKey(Newest, i), RepairKey(ReviewKey(Newest, i))} \cap DOMAIN ops :
          ops[k].st = "applied" => ops[k].answer = "none"
    BY <2>1, <2>2 DEF PlanInv, TablesFit, ReviewsMatchLedger
  <2>4. key \in DOMAIN ops /\ ops[key].st = "applied" => ops[key].answer \in Answers(key[1])
    BY <1>0 DEF CallInv, OpsShape, IsRow
  <2>5. "none" \notin Answers(key[1])
    BY <1>5, StageKinds DEF Answers
  <2>6. ~Is(key, "applied")
    BY <2>1, <2>3, <2>4, <2>5 DEF Is, ReviewKeys
  <2> QED BY <1>5, <2>6 DEF Asked, Is
<1>6. CurrentFits'
  <2>1. \A k \in OpenKeys' : Current(k)'
    BY <1>4, SameTables DEF PlanInv, CurrentFits
  <2>2. Current(call.key)'
    <3>1. Current(key)'
      BY SameTables
    <3> QED BY <1>0, <3>1 DEF Current
  <2>3. pc' = "apply" /\ call'.key[1] \in Reviews => Is(call.key, "completed")'
    BY <1>0, <1>5 DEF Is
  <2> QED BY <2>1, <2>2, <2>3 DEF CurrentFits
<1>7. PhaseFits'
  BY <1>0, CurrentIsUnapproved, SameTables DEF PhaseFits, Rest
<1>8. DoneFits'
  BY <1>0, NotAsking DEF PlanInv, DoneFits
<1> QED BY <1>3, <1>6, <1>7, <1>8

PlanAfter == TablesFit' /\ CurrentFits' /\ PhaseFits' /\ DoneFits'

\* No task is carried out and nothing is asked while the coroutine is at work.
LEMMA NotDone ==
  ASSUME PlanInv, pc \notin Rest \cup Quiet, asked' = asked
  PROVE  /\ \A t \in DOMAIN tasks : tasks[t] # "completed"
         /\ tasks' = tasks => DoneFits'
<1>1. \A t \in DOMAIN tasks : tasks[t] # "completed"
  BY DEF PlanInv, DoneFits
<1>2. asked' \notin {"collecting", "published"}
  BY NotAsking DEF PlanInv
<1> QED BY <1>1, <1>2 DEF DoneFits

\* Steps that change neither the ledger nor the plan.
LEMMA PlanStays ==
  ASSUME PlanInv, UNCHANGED <<ops, tasks, revs>>
  PROVE  /\ TablesFit' /\ OpenKeys' = OpenKeys /\ (pc' \notin InCall => CurrentFits')
         /\ \A r : Doomed(r) => Doomed(r)'
<1>1. Quietly /\ DOMAIN ops' = DOMAIN ops /\ OpenKeys' = OpenKeys
  BY QuietMoves, OpenAfter DEF PlanInv
<1>2. TablesFit'
  BY <1>1, LedgerOnly
<1>3. \A k \in OpenKeys' : Current(k)'
  BY <1>1, SameTables DEF PlanInv, CurrentFits
<1>4. \A r : Doomed(r) => Doomed(r)'
  BY DEF Doomed, Is
<1> QED BY <1>1, <1>2, <1>3, <1>4 DEF CurrentFits, InCall

\* what is open when the cycle is at a plan with tasks, or without
LEMMA WhatIsOpen ==
  ASSUME PlanInv, NEW k \in OpenKeys
  PROVE  /\ Current(k) /\ k[1] \in Stages /\ KeyFits(k) /\ Approved = {}
         /\ k[1] \in Reviews \/ Active = {}
         /\ tasks # <<>> /\ Active = {} => ReplanIsOpen
         /\ tasks # <<>> /\ Active # {} => k[1] \in Reviews /\ Unreviewed(Newest) # {}
<1>1. Current(k) /\ k[1] \in Stages /\ KeyFits(k)
  BY DEF PlanInv, CurrentFits, CallInv, OpsShape, OpenKeys, IsKey, TablesFit, KeysFit
<1>2. Approved = {} /\ (k[1] \in Reviews \/ Active = {})
  BY <1>1, CurrentIsUnapproved DEF Stages
<1>3. tasks # <<>> /\ Active = {} => ReplanIsOpen
  <2>1. tasks # <<>> /\ Active = {} => k[1] \in Planning /\ k \notin FirstPlans /\ Newest \in Superseded
                                       /\ k \in Replans(Newest)
    BY <1>1, StageKinds DEF Current, Unplanned, Stages
  <2>2. Newest \in Superseded => Newest \in Nat /\ Newest # 0
    BY DEF Superseded, Newest, PlanInv, CallInv, TablesShape
  <2> QED BY <2>1, <2>2, ReplansDiffer DEF ReplanIsOpen
<1>4. tasks # <<>> /\ Active # {} => k[1] \in Reviews /\ Unreviewed(Newest) # {}
  BY <1>1, <1>2 DEF Current
<1> QED BY <1>1, <1>2, <1>3, <1>4

LEMMA PlanRecovered ==
  ASSUME PlanInv, NEW key, Recovered(key), key[1] \notin Reviews, pc \notin Rest \cup Quiet,
         UNCHANGED <<tasks, revs, asked>>
  PROVE  PlanAfter
<1>1. call'.key = key /\ key \in OpenKeys /\ pc' \in {"call", "apply"} /\ UNCHANGED ops
  BY DEF Recovered
<1>2. TablesFit' /\ OpenKeys' = OpenKeys
  BY <1>1, PlanStays
<1>3. Current(key) /\ Approved = {} /\ key[1] \in Stages
  BY <1>1, WhatIsOpen
<1>4. Current(call.key)'
  <2>1. Current(key)'
    BY <1>3, SameTables
  <2> QED BY <1>1, <2>1 DEF Current
<1>5. \A k \in OpenKeys' : Current(k)'
  BY <1>2, SameTables DEF PlanInv, CurrentFits
<1>6. CurrentFits'
  BY <1>1, <1>4, <1>5 DEF CurrentFits
<1>7. PhaseFits'
  BY <1>1, <1>3, SameTables DEF PhaseFits, Rest
<1> QED BY <1>2, <1>6, <1>7, NotDone DEF PlanAfter

LEMMA PlanEntries ==
  ASSUME PlanInv, AddWork \/ AdjudicateContest \/ Start \/ StartAgain \/ ResumeContest \/ Resume
  PROVE  PlanAfter
<1>0. CallInv
  BY DEF PlanInv
<1>1. CASE /\ pc \in {"add_work", "start"} /\ UNCHANGED <<tasks, revs, asked>>
           /\ \/ Asked(<<"add_work", 0>>) \/ Asked(<<"planning", 0>>)
              \/ \E k \in OpenKeys : k[1] \in Planning /\ Recovered(k)
              \/ Raise
  <2>1. Unplanned
    BY <1>1 DEF PlanInv, PhaseFits
  <2>2. Current(<<"add_work", 0>>) /\ Current(<<"planning", 0>>)
    BY <2>1, StageKinds DEF Current, FirstPlans
  <2>3. CASE Raise
    <3>1. TablesFit' /\ CurrentFits' /\ OpenKeys' = OpenKeys /\ pc' = "error"
      BY <1>1, <2>3, PlanStays DEF Raise, InCall
    <3>2. Approved' = {}
      BY <1>1, <2>1, SameTables DEF Unplanned, Approved
    <3>3. PhaseFits'
      BY <3>1, <3>2 DEF PhaseFits
    <3> QED BY <1>1, <3>1, <3>3, NotDone DEF PlanAfter, Rest, Quiet
  <2>4. CASE Asked(<<"add_work", 0>>)
    BY <1>1, <2>2, <2>4, PlanAsked DEF PlanAfter, Rest, Quiet
  <2>5. CASE Asked(<<"planning", 0>>)
    BY <1>1, <2>2, <2>5, PlanAsked DEF PlanAfter, Rest, Quiet
  <2>6. CASE \E k \in OpenKeys : k[1] \in Planning /\ Recovered(k)
    BY <1>1, <2>6, PlanRecovered, StageKinds DEF Rest, Quiet
  <2> QED BY <1>1, <2>3, <2>4, <2>5, <2>6
<1>2. CASE AddWork
  BY <1>0, <1>1, <1>2, AddWorkEffect DEF AddWork, tables
<1>3. CASE Start
  BY <1>0, <1>1, <1>3, StartEffect DEF Start
<1>4. CASE AdjudicateContest
  <2>1. Asked(<<"contest", 0>>) /\ pc = "contest" /\ UNCHANGED <<tasks, revs, asked>>
    BY <1>0, <1>4, AdjudicateEffect DEF AdjudicateContest
  <2>2. Current(<<"contest", 0>>)
    BY <2>1, StageKinds DEF PlanInv, PhaseFits, Current
  <2> QED BY <2>1, <2>2, PlanAsked DEF PlanAfter, Rest, Quiet
<1>5. CASE StartAgain
  <2>1. pc = "resume" /\ pc' = "start" /\ tasks = <<>> /\ UNCHANGED <<ops, tasks, revs, asked>>
    BY <1>5 DEF StartAgain, tables
  <2>2. TablesFit' /\ CurrentFits' /\ OpenKeys' = OpenKeys
    BY <2>1, PlanStays DEF InCall
  <2>3. Unplanned
    BY <2>1 DEF Unplanned, PlanInv, TablesFit, RevsFit
  <2>4. Approved' = {} /\ Unplanned'
    BY <2>1, <2>3, SameTables DEF Approved, Unplanned
  <2>5. PhaseFits'
    BY <2>1, <2>4 DEF PhaseFits
  <2> QED BY <2>1, <2>2, <2>5, NotDone DEF PlanAfter, Rest, Quiet
<1>6. CASE ResumeContest
  BY <1>0, <1>6, ResumeContestEffect, PlanRecovered, StageKinds DEF ResumeContest, Rest, Quiet
<1>7. CASE Resume
  <2>1. /\ pc = "resume" /\ tasks # <<>> /\ UNCHANGED <<ops, tasks, revs, asked>>
        /\ pc' = (IF NeedsNegotiation THEN "negotiate" ELSE "execute")
    BY <1>7 DEF Resume
  <2>2. TablesFit' /\ CurrentFits' /\ OpenKeys' = OpenKeys
    BY <2>1, PlanStays DEF InCall
  <2>3. Approved # {} => OpenKeys = {}
    BY DEF PlanInv, PhaseFits
  <2>4. ~Negotiation => OpenKeys = {}
    <3>1. ~Negotiation => Active = {} /\ Superseded = {}
      BY DEF PlanInv, TablesFit, RevsFit, Active, Superseded
    <3>2. ~Negotiation => \A k \in OpenKeys : FALSE
      BY <2>1, <3>1, WhatIsOpen, StageKinds DEF Current, Unplanned, Stages
    <3> QED BY <3>2
  <2>5. PhaseFits'
    BY <2>1, <2>2, <2>3, <2>4, SameTables DEF PhaseFits, NeedsNegotiation
  <2> QED BY <2>1, <2>2, <2>5, NotDone DEF PlanAfter, Rest, Quiet
<1> QED BY <1>2, <1>3, <1>4, <1>5, <1>6, <1>7

LEMMA InCallIs ==
  ASSUME PlanInv, pc \in InCall
  PROVE  /\ Current(call.key) /\ IsKey(call.key) /\ call.key[1] \in Stages /\ Approved = {}
         /\ OpenKeys \subseteq {call.key}
<1>1. Current(call.key) /\ IsKey(call.key) /\ OpenKeys \subseteq {call.key}
  BY DEF PlanInv, CurrentFits, CallInv, CallShape, CallFits
<1>2. call.key[1] \in Stages
  BY <1>1 DEF IsKey
<1>3. \A k : k = call.key /\ Current(call.key) => Current(k)
  BY DEF Current
<1>4. Approved = {}
  BY <1>1, <1>2, <1>3, CurrentIsUnapproved
<1> QED BY <1>1, <1>2, <1>4

\* The row of the call moves, the coroutine stays with the call.
LEMMA CallMoves ==
  ASSUME PlanInv, pc \in {"call", "invoking"}, Quietly, DOMAIN ops' = DOMAIN ops,
         OpenKeys' \subseteq OpenKeys, UNCHANGED <<call, tasks, revs, asked>>,
         pc' \in {"invoking", "apply", "invalid"}, pc' = "apply" => Is(call.key, "completed")'
  PROVE  PlanAfter
<1>1. TablesFit'
  BY LedgerOnly
<1>2. Current(call.key) /\ Approved = {}
  BY InCallIs DEF InCall
<1>3. Current(call.key)'
  BY <1>2, SameTables DEF Current
<1>4. \A k \in OpenKeys' : Current(k)'
  BY SameTables DEF PlanInv, CurrentFits
<1>5. CurrentFits'
  BY <1>3, <1>4 DEF CurrentFits
<1>6. PhaseFits'
  BY <1>2, SameTables DEF PhaseFits
<1> QED BY <1>1, <1>5, <1>6, NotDone DEF PlanAfter, Rest, Quiet

\* The call is parked: the coroutine ends.
LEMMA CallParked ==
  ASSUME PlanInv, pc = "invoking", Quietly, DOMAIN ops' = DOMAIN ops,
         OpenKeys' \subseteq OpenKeys, UNCHANGED <<tasks, revs, asked>>, pc' \in {"idle", "error"}
  PROVE  PlanAfter
<1>1. TablesFit'
  BY LedgerOnly
<1>2. Approved = {}
  BY InCallIs DEF InCall
<1>4. \A k \in OpenKeys' : Current(k)'
  BY SameTables DEF PlanInv, CurrentFits
<1>5. CurrentFits'
  BY <1>4 DEF CurrentFits, InCall
<1>6. PhaseFits'
  BY <1>2, SameTables DEF PhaseFits
<1> QED BY <1>1, <1>5, <1>6, NotDone DEF PlanAfter, Rest, Quiet

LEMMA PlanCalls ==
  ASSUME PlanInv, \/ BeginAttempt \/ MarkFailed \/ Error \/ Park \/ Ambiguous
                  \/ \E a \in Answers(call.key[1]) : Complete(a)
  PROVE  PlanAfter
<1>0. CallInv
  BY DEF PlanInv
<1>1. \A st : Is(call.key, st) => call.key \in DOMAIN ops /\ ops[call.key].st = st
  BY DEF Is
<1>2. CASE BeginAttempt
  <2>1. Moved(call.key, "invoking") /\ Is(call.key, "prepared")
    BY <1>0, <1>2, AttemptEffect
  <2>2. Quietly /\ DOMAIN ops' = DOMAIN ops /\ OpenKeys' \subseteq OpenKeys
    BY <1>0, <1>1, <2>1, QuietMoves, OpenAfter DEF Transitions, OpenKeys, OpenOp
  <2> QED BY <1>2, <2>2, CallMoves DEF BeginAttempt, tables
<1>3. CASE MarkFailed
  <2>1. Moved(call.key, "failed") /\ Is(call.key, "invoking")
    BY <1>0, <1>3, AttemptEffect
  <2>2. Quietly /\ DOMAIN ops' = DOMAIN ops /\ OpenKeys' \subseteq OpenKeys
    BY <1>0, <1>1, <2>1, QuietMoves, OpenAfter DEF Transitions, OpenOp
  <2> QED BY <1>3, <2>2, CallMoves DEF MarkFailed, tables
<1>4. CASE Error
  <2>1. pc = "error" /\ pc' = "idle" /\ UNCHANGED <<ops, tasks, revs, asked>>
    BY <1>4 DEF Error, Ends
  <2>2. TablesFit' /\ CurrentFits' /\ OpenKeys' = OpenKeys
    BY <2>1, PlanStays DEF InCall
  <2>3. Approved = {}
    BY <2>1 DEF PlanInv, PhaseFits, Rest
  <2>4. PhaseFits'
    BY <2>1, <2>3, SameTables DEF PhaseFits
  <2> QED BY <2>1, <2>2, <2>4, NotDone DEF PlanAfter, Rest, Quiet
<1>5. CASE Park
  <2>1. pc = "invoking" /\ UNCHANGED <<tasks, revs, asked>> /\ Is(call.key, "invoking")
    BY <1>0, <1>5, AttemptEffect DEF Park
  <2>2. CASE Moved(call.key, "waiting") /\ Ends
    <3>1. Quietly /\ DOMAIN ops' = DOMAIN ops /\ OpenKeys' \subseteq OpenKeys
      BY <1>0, <1>1, <2>1, <2>2, QuietMoves, OpenAfter DEF Transitions, OpenKeys, OpenOp
    <3> QED BY <2>1, <2>2, <3>1, CallParked DEF Ends
  <2>3. CASE Raise
    BY <1>0, <2>1, <2>3, CallParked, QuietMoves, OpenAfter DEF Raise
  <2> QED BY <1>0, <1>5, <2>2, <2>3, AttemptEffect
<1>6. CASE Ambiguous
  <2>1. pc = "invoking" /\ UNCHANGED <<tasks, revs, asked>> /\ Is(call.key, "invoking")
        /\ Moved(call.key, "ambiguous") /\ pc' = "idle"
    BY <1>0, <1>6, AttemptEffect DEF Ambiguous, Ends
  <2>2. Quietly /\ DOMAIN ops' = DOMAIN ops /\ OpenKeys' \subseteq OpenKeys
    BY <1>0, <1>1, <2>1, QuietMoves, OpenAfter DEF Transitions, OpenKeys, OpenOp
  <2> QED BY <2>1, <2>2, CallParked
<1>7. ASSUME NEW a \in Answers(call.key[1]), Complete(a) PROVE PlanAfter
  <2>1. Stored(call.key, a) /\ Is(call.key, "invoking") /\ UNCHANGED <<call, tasks, revs, asked>>
        /\ pc = "invoking" /\ pc' = "apply"
    BY <1>0, <1>7, CompleteEffect DEF Complete, tables
  <2>2. Quietly /\ DOMAIN ops' = DOMAIN ops /\ OpenKeys' \subseteq OpenKeys
    BY <1>0, <1>1, <2>1, QuietMoves, OpenAfter DEF OpenKeys, OpenOp
  <2>3. Is(call.key, "completed")'
    BY <1>1, <2>1 DEF Stored, Is
  <2> QED BY <2>1, <2>2, <2>3, CallMoves
<1> QED BY <1>2, <1>3, <1>4, <1>5, <1>6, <1>7

\* A repair is about the same plan as the call it repairs.
LEMMA RepairIsCurrent ==
  ASSUME PlanInv, NEW k, IsKey(k), Current(k), k[1] \notin Repairs
  PROVE  /\ Current(RepairKey(k)) /\ IsKey(RepairKey(k))
         /\ RepairKey(k)[1] = "review_repair" => <<"review", RepairKey(k)[2]>> = k
<1>1. CASE k \in FirstPlans
  BY <1>1, FirstPlansAre, MadeKeys, StageKinds DEF Current, RepairKey
<1>2. CASE k[1] \in Contests
  <2>1. RepairKey(k) = <<"contest_repair", k[2]>>
    BY <1>2 DEF Contests, Repairs, RepairKey
  <2>2. RepairKey(k)[1] \in Contests /\ RepairKey(k)[1] # "review_repair"
    BY <2>1 DEF Contests
  <2> QED BY <1>2, <2>2, MadeKeys, StageKinds DEF Current
<1>3. CASE k[1] \in Planning /\ k \notin FirstPlans
  <2>1. Newest \in Superseded /\ k \in Replans(Newest) /\ Live = {} /\ Newest \in Nat
    BY <1>3 DEF Current, PlanInv, CallInv, TablesShape, Newest
  <2>2. Newest # 0
    BY <2>1 DEF Superseded, PlanInv, CallInv, TablesShape, Newest
  <2>3. RepairKey(k) \in Replans(Newest) /\ RepairKey(k) \notin FirstPlans /\ RepairKey(k)[1] \in Planning
    BY <1>3, <2>1, <2>2, ReplansDiffer
  <2> QED BY <2>1, <2>3, MadeKeys, StageKinds DEF Current
<1>4. CASE k[1] \in Reviews
  <2>1. PICK i \in Unreviewed(Newest) : k \in ReviewKeys(Newest, i) /\ Newest \in Active
    BY <1>4 DEF Current
  <2>2. Newest \in Nat /\ i \in Approvers
    BY <2>1 DEF Unreviewed, PlanInv, CallInv, TablesShape, Newest
  <2>3. k = ReviewKey(Newest, i)
    BY <2>1, <2>2, MadeKeys DEF ReviewKeys, Repairs
  <2>4. RepairKey(k) \in ReviewKeys(Newest, i) /\ RepairKey(k)[1] \in Reviews
    BY <2>2, <2>3, MadeKeys, StageKinds DEF ReviewKeys
  <2>5. <<"review", RepairKey(k)[2]>> = k
    BY <2>3 DEF ReviewKey, RepairKey
  <2>6. RepairKey(k) \notin FirstPlans
    BY <2>4, FirstPlansAre, StageKinds
  <2> QED BY <2>1, <2>4, <2>5, <2>6, MadeKeys, StageKinds DEF Current
<1> QED BY <1>1, <1>2, <1>3, <1>4 DEF IsKey, Stages

LEMMA PlanInvalid ==
  ASSUME PlanInv, Invalid
  PROVE  PlanAfter
<1>0. CallInv /\ pc = "invalid" /\ UNCHANGED <<tasks, revs, asked>>
  BY DEF PlanInv, Invalid, tables
<1>1. /\ Is(call.key, "failed") /\ OpenKeys = {} /\ Current(call.key) /\ IsKey(call.key)
      /\ call.key[1] \in Stages /\ Approved = {}
  BY <1>0, InvalidEffect, InCallIs DEF InCall
<1>2. PICK k : k = call.key /\ IsKey(k) /\ Current(k) /\ Is(k, "failed")
  <2>1. \A k : k = call.key => IsKey(k) /\ Current(k) /\ Is(k, "failed")
    BY <1>1 DEF IsKey, Current, Is
  <2> QED BY <2>1
<1>3. CASE k[1] \notin Repairs /\ Asked(RepairKey(call.key))
  <2>1. PICK key : key = RepairKey(k) /\ Asked(key) /\ Current(key)
    <3>1. Current(RepairKey(k)) /\ Asked(RepairKey(k))
      BY <1>2, <1>3, RepairIsCurrent
    <3>2. \A key : key = RepairKey(k) => Asked(key) /\ Current(key)
      BY <3>1 DEF Asked, Current, Reserved, Is, IsKey
    <3> QED BY <3>2
  <2>2. key[1] = "review_repair" => Is(<<"review", key[2]>>, "failed")
    BY <1>2, <1>3, <2>1, RepairIsCurrent
  <2> QED BY <1>0, <2>1, <2>2, PlanAsked DEF PlanAfter, Rest, Quiet
<1>4. CASE UNCHANGED <<ops, call>> /\ k[1] \in Reviews \cap Repairs /\ pc' = "verdict"
  <2>1. PICK i \in Unreviewed(Newest) : k \in ReviewKeys(Newest, i) /\ Newest \in Active
    BY <1>2, <1>4 DEF Current
  <2>2. Newest \in Nat /\ i \in Approvers /\ revs # <<>>
    BY <2>1 DEF Unreviewed, PlanInv, CallInv, TablesShape, Newest, Active
  <2>3. k = RepairKey(ReviewKey(Newest, i))
    BY <1>4, <2>1, <2>2, MadeKeys DEF ReviewKeys, Repairs
  <2>4. Doomed(Newest)
    BY <1>2, <2>2, <2>3 DEF Doomed
  <2>5. TablesFit' /\ CurrentFits' /\ OpenKeys' = {} /\ Doomed(Newest)'
    BY <1>0, <1>1, <1>4, <2>4, PlanStays, SameTables DEF InCall, Doomed, Is
  <2>6. Negotiation /\ tasks # <<>>
    BY <2>2 DEF PlanInv, TablesFit, RevsFit
  <2>7. PhaseFits'
    BY <1>0, <1>1, <1>4, <2>1, <2>5, <2>6, SameTables DEF PhaseFits
  <2> QED BY <1>0, <2>5, <2>7, NotDone DEF PlanAfter, Rest, Quiet
<1>5. CASE UNCHANGED <<ops, call>> /\ pc' = "error"
  <2>1. TablesFit' /\ CurrentFits'
    BY <1>0, <1>5, PlanStays DEF InCall
  <2>2. PhaseFits'
    BY <1>0, <1>1, <1>5, SameTables DEF PhaseFits
  <2> QED BY <1>0, <2>1, <2>2, NotDone DEF PlanAfter, Rest, Quiet
<1> QED BY <1>0, <1>2, <1>3, <1>4, <1>5, InvalidEffect

-----------------------------------------------------------------------------
(* What a step does to the tasks and to the revisions                      *)

TaskStatus == {"pending", "canceled", "completed"}
Undone == \A t \in DOMAIN tasks : tasks[t] # "completed"
Canceled == DOMAIN tasks \ Live

LEMMA TasksAdded ==
  ASSUME tasks \in Seq(TaskStatus), AddTasks(PlanSize)
  PROVE  /\ tasks' \in Seq(TaskStatus) /\ tasks' # <<>> /\ Canceled' = Canceled /\ Live \subseteq Live'
         /\ Undone => Undone'
<1> DEFINE new == [i \in 1 .. PlanSize |-> "pending"]
<1>1. PlanSize \in Nat \ {0}
  BY PlanConstants
<1>2. new \in Seq(TaskStatus) /\ Len(new) = PlanSize /\ \A i \in 1 .. PlanSize : new[i] = "pending"
  <2>1. new \in [1 .. PlanSize -> TaskStatus]
    BY DEF TaskStatus
  <2>2. new \in Seq(TaskStatus)
    BY <1>1, <2>1, SeqDef
  <2>3. DOMAIN new = 1 .. PlanSize
    OBVIOUS
  <2>4. Len(new) = PlanSize
    BY <1>1, <2>2, <2>3, LenProperties
  <2> QED BY <2>2, <2>4
<1>3. tasks' = tasks \o new
  BY DEF AddTasks
<1> HIDE DEF new
<1>4. /\ tasks' \in Seq(TaskStatus) /\ Len(tasks') = Len(tasks) + PlanSize
      /\ \A i \in 1 .. Len(tasks) + PlanSize :
           tasks'[i] = IF i <= Len(tasks) THEN tasks[i] ELSE new[i - Len(tasks)]
  BY <1>2, <1>3, ConcatProperties
<1>5. Len(tasks) \in Nat /\ DOMAIN tasks = 1 .. Len(tasks) /\ DOMAIN tasks' = 1 .. Len(tasks')
  BY <1>4, LenProperties
<1>6. /\ \A i \in DOMAIN tasks : i \in DOMAIN tasks' /\ tasks'[i] = tasks[i]
      /\ \A i \in DOMAIN tasks' \ DOMAIN tasks : tasks'[i] = "pending"
  <2>1. \A i \in DOMAIN tasks : i \in DOMAIN tasks' /\ tasks'[i] = tasks[i]
    BY <1>1, <1>4, <1>5
  <2>2. ASSUME NEW i \in DOMAIN tasks' \ DOMAIN tasks PROVE tasks'[i] = "pending"
    <3>1. i \in 1 .. Len(tasks) + PlanSize /\ ~(i <= Len(tasks)) /\ i - Len(tasks) \in 1 .. PlanSize
      BY <1>1, <1>4, <1>5, <2>2
    <3> QED BY <1>2, <1>4, <3>1
  <2> QED BY <2>1, <2>2
<1>7. Len(tasks') # 0
  BY <1>1, <1>4, <1>5
<1> QED BY <1>4, <1>6, <1>7, EmptySeq DEF Canceled, Live, Undone

LEMMA TaskCanceled ==
  ASSUME tasks \in Seq(TaskStatus), NEW t \in DOMAIN tasks, CancelTask(t)
  PROVE  /\ tasks' \in Seq(TaskStatus) /\ DOMAIN tasks' = DOMAIN tasks /\ (tasks' = <<>> => tasks = <<>>)
         /\ Canceled' = Canceled \cup {t} /\ Live' = Live \ {t} /\ (Undone => Undone')
<1>1. t \in 1 .. Len(tasks) /\ Len(tasks) \in Nat /\ DOMAIN tasks = 1 .. Len(tasks)
  BY LenProperties
<1>2. tasks' \in Seq(TaskStatus) /\ Len(tasks') = Len(tasks)
  BY <1>1, ExceptSeq DEF CancelTask, TaskStatus
<1>3. /\ DOMAIN tasks' = DOMAIN tasks /\ tasks'[t] = "canceled"
      /\ \A s \in DOMAIN tasks \ {t} : tasks'[s] = tasks[s]
  BY DEF CancelTask
<1>4. tasks' = <<>> => tasks = <<>>
  BY <1>2, EmptySeq
<1> QED BY <1>2, <1>3, <1>4 DEF Canceled, Live, Undone

LEMMA TasksExecuted ==
  ASSUME tasks \in Seq(TaskStatus),
         tasks' = [t \in DOMAIN tasks |-> IF tasks[t] = "pending" THEN "completed" ELSE tasks[t]]
  PROVE  /\ tasks' \in Seq(TaskStatus) /\ DOMAIN tasks' = DOMAIN tasks /\ (tasks' = <<>> => tasks = <<>>)
         /\ Canceled' = Canceled /\ Live' = Live
<1>1. Len(tasks) \in Nat /\ DOMAIN tasks = 1 .. Len(tasks) /\ \A t \in DOMAIN tasks : tasks[t] \in TaskStatus
  BY LenProperties, ElementOfSeq
<1>2. tasks' \in [1 .. Len(tasks) -> TaskStatus]
  BY <1>1 DEF TaskStatus
<1>3. tasks' \in Seq(TaskStatus) /\ DOMAIN tasks' = DOMAIN tasks
  BY <1>1, <1>2, SeqDef
<1>4. Len(tasks') = Len(tasks)
  BY <1>1, <1>3, LenProperties
<1>5. tasks' = <<>> => tasks = <<>>
  BY <1>3, <1>4, EmptySeq
<1>6. \A t \in DOMAIN tasks : tasks'[t] = "canceled" <=> tasks[t] = "canceled"
  OBVIOUS
<1> QED BY <1>3, <1>5, <1>6 DEF Canceled, Live

RevsKept(r) ==
  /\ revs' \in Seq(RevRow) /\ Len(revs') = Len(revs) /\ DOMAIN revs' = DOMAIN revs
  /\ revs'[r].tasks = revs[r].tasks /\ \A s \in DOMAIN revs \ {r} : revs'[s] = revs[s]

Decided(r, st) == [revs EXCEPT ![r].status = st]
Reviewed(r, i, d) == [revs EXCEPT ![r].reviews[i] = d]

LEMMA RevDecided ==
  ASSUME revs \in Seq(RevRow), NEW r \in DOMAIN revs, NEW st \in RevStatus,
         revs' = Decided(r, st)
  PROVE  RevsKept(r) /\ revs'[r].status = st /\ revs'[r].reviews = revs[r].reviews
<1>1. r \in 1 .. Len(revs) /\ revs[r] \in RevRow
  BY LenProperties, ElementOfSeq
<1>2. [revs[r] EXCEPT !.status = st] \in RevRow
  BY <1>1 DEF RevRow
<1>3. revs' = [revs EXCEPT ![r] = [revs[r] EXCEPT !.status = st]]
  BY DEF Decided
<1>4. revs' \in Seq(RevRow) /\ Len(revs') = Len(revs)
  BY <1>1, <1>2, <1>3, ExceptSeq
<1>5. revs'[r] = [revs[r] EXCEPT !.status = st] /\ DOMAIN revs' = DOMAIN revs
      /\ \A s \in DOMAIN revs \ {r} : revs'[s] = revs[s]
  BY <1>3
<1> QED BY <1>1, <1>4, <1>5 DEF RevsKept, RevRow

LEMMA RevReviewed ==
  ASSUME revs \in Seq(RevRow), NEW r \in DOMAIN revs, NEW i \in Approvers, NEW d \in {"approve", "object"},
         revs' = Reviewed(r, i, d)
  PROVE  /\ RevsKept(r) /\ revs'[r].status = revs[r].status /\ revs'[r].reviews[i] = d
         /\ \A j \in Approvers \ {i} : revs'[r].reviews[j] = revs[r].reviews[j]
<1>1. r \in 1 .. Len(revs) /\ revs[r] \in RevRow
  BY LenProperties, ElementOfSeq
<1> DEFINE row == [revs[r] EXCEPT !.reviews = [revs[r].reviews EXCEPT ![i] = d]]
<1>2. row \in RevRow
  BY <1>1 DEF RevRow, Reviewing
<1>3. revs' = [revs EXCEPT ![r] = row]
  BY DEF Reviewed
<1>4. revs' \in Seq(RevRow) /\ Len(revs') = Len(revs)
  <2> HIDE DEF row
  <2> QED BY <1>1, <1>2, <1>3, ExceptSeq
<1>5. revs'[r] = row /\ DOMAIN revs' = DOMAIN revs /\ \A s \in DOMAIN revs \ {r} : revs'[s] = revs[s]
  BY <1>3
<1>6. row.status = revs[r].status /\ row.tasks = revs[r].tasks /\ row.reviews[i] = d
      /\ \A j \in Approvers \ {i} : row.reviews[j] = revs[r].reviews[j]
  BY <1>1 DEF RevRow, Reviewing
<1> QED BY <1>4, <1>5, <1>6 DEF RevsKept

LEMMA RevAdded ==
  ASSUME revs \in Seq(RevRow), tasks \in Seq(TaskStatus),
         revs' = revs \o <<[status |-> "awaiting_approval", tasks |-> Live, reviews |-> NoReviews]>>
  PROVE  /\ revs' \in Seq(RevRow) /\ Len(revs) \in Nat /\ Len(revs') = Len(revs) + 1
         /\ DOMAIN revs' = DOMAIN revs \cup {Len(revs) + 1} /\ Len(revs) + 1 \notin DOMAIN revs
         /\ revs'[Len(revs) + 1] = [status |-> "awaiting_approval", tasks |-> Live, reviews |-> NoReviews]
         /\ \A r \in DOMAIN revs : revs'[r] = revs[r]
<1> DEFINE row == [status |-> "awaiting_approval", tasks |-> Live, reviews |-> NoReviews]
<1>1. row \in RevRow
  <2>1. DOMAIN tasks = 1 .. Len(tasks) /\ Len(tasks) \in Nat
    BY LenProperties
  <2>2. Live \in SUBSET Nat
    BY <2>1 DEF Live
  <2>3. NoReviews \in Reviewing
    BY DEF NoReviews, Reviewing
  <2> QED BY <2>2, <2>3 DEF RevRow, RevStatus
<1> HIDE DEF row
<1>2. <<row>> \in Seq(RevRow) /\ Len(<<row>>) = 1
  BY <1>1
<1>3. revs' = revs \o <<row>>
  BY DEF row
<1>4. /\ revs' \in Seq(RevRow) /\ Len(revs') = Len(revs) + 1
      /\ \A i \in 1 .. Len(revs) + 1 : revs'[i] = IF i <= Len(revs) THEN revs[i] ELSE <<row>>[i - Len(revs)]
  BY <1>2, <1>3, ConcatProperties
<1>5. DOMAIN revs = 1 .. Len(revs) /\ Len(revs) \in Nat /\ DOMAIN revs' = 1 .. Len(revs) + 1
  BY <1>4, LenProperties
<1>6. revs'[Len(revs) + 1] = row /\ \A r \in DOMAIN revs : revs'[r] = revs[r]
  <2>1. Len(revs) + 1 \in 1 .. Len(revs) + 1 /\ ~(Len(revs) + 1 <= Len(revs)) /\ (Len(revs) + 1) - Len(revs) = 1
    BY <1>5
  <2>2. revs'[Len(revs) + 1] = <<row>>[1]
    BY <1>4, <2>1
  <2> QED BY <1>4, <1>5, <2>2
<1>7. DOMAIN revs' = DOMAIN revs \cup {Len(revs) + 1} /\ Len(revs) + 1 \notin DOMAIN revs
  BY <1>5
<1> QED BY <1>4, <1>5, <1>6, <1>7 DEF row

\* the review of i on plan r is told by exactly one call
Matches(r, i) ==
  LET given == {k \in ReviewKeys(r, i) \cap DOMAIN ops : ops[k].st = "applied"}
  IN \/ revs[r].reviews[i] = "none" /\ given = {}
     \/ \E k \in given : given = {k} /\ ops[k].answer = revs[r].reviews[i]

LEMMA MatchesAll == ReviewsMatchLedger <=> \A r \in DOMAIN revs, i \in Approvers : Matches(r, i)
BY DEF ReviewsMatchLedger, Matches, ReviewKeys

LEMMA MatchStays ==
  ASSUME NEW r, NEW i, Matches(r, i), revs'[r].reviews[i] = revs[r].reviews[i],
         \A k \in ReviewKeys(r, i) : /\ Is(k, "applied")' <=> Is(k, "applied")
                                     /\ Is(k, "applied") => ops'[k] = ops[k]
  PROVE  Matches(r, i)'
<1> DEFINE given == {k \in ReviewKeys(r, i) \cap DOMAIN ops : ops[k].st = "applied"}
           after == {k \in ReviewKeys(r, i) \cap DOMAIN ops' : ops'[k].st = "applied"}
<1>1. after = given /\ \A k \in given : ops'[k] = ops[k]
  BY DEF Is
<1>2. \/ revs[r].reviews[i] = "none" /\ given = {}
      \/ \E k \in given : given = {k} /\ ops[k].answer = revs[r].reviews[i]
  BY DEF Matches
<1> HIDE DEF given, after
<1>3. \/ revs'[r].reviews[i] = "none" /\ after = {}
      \/ \E k \in after : after = {k} /\ ops'[k].answer = revs'[r].reviews[i]
  BY <1>1, <1>2
<1> QED BY <1>3 DEF after, Matches, ReviewKeys, ReviewKey, RepairKey

\* An answer that is not a review is applied: tasks are added, or a verdict needs none.
LEMMA PlanAdds ==
  ASSUME PlanInv, pc = "apply", call.key[1] \notin Reviews, Is(call.key, "completed"),
         Moved(call.key, "applied"), UNCHANGED revs,
         AddTasks(PlanSize) \/ (call.key[1] \in Contests /\ UNCHANGED tasks)
  PROVE  TablesFit' /\ tasks' \in Seq(TaskStatus)
<1>0. PICK key : /\ key = call.key /\ key[1] \notin Reviews /\ Is(key, "completed") /\ Moved(key, "applied")
                 /\ Current(key) /\ IsKey(key) /\ key[1] \in Stages
                 /\ AddTasks(PlanSize) \/ (key[1] \in Contests /\ UNCHANGED tasks)
  <2>1. Current(call.key) /\ IsKey(call.key) /\ call.key[1] \in Stages
    BY InCallIs DEF InCall
  <2>2. \A k : k = call.key => Current(k) /\ IsKey(k) /\ Is(k, "completed") /\ Moved(k, "applied")
    BY <2>1 DEF Current, IsKey, Is, Moved
  <2> QED BY <2>1, <2>2
<1>1. TablesFit /\ tasks \in Seq(TaskStatus) /\ key \in DOMAIN ops
  BY <1>0 DEF PlanInv, CallInv, TablesShape, TaskStatus, Is
<1>2. /\ tasks' \in Seq(TaskStatus) /\ Canceled' = Canceled /\ (tasks' = <<>> => tasks = <<>>)
      /\ key[1] \in Planning => tasks' # <<>>
  BY <1>0, <1>1, TasksAdded, StageKinds, SameTables DEF Canceled, Live
<1>3. Approved = {} /\ Active = {} /\ (Unplanned \/ Newest \in Superseded)
  BY <1>0, CurrentIsUnapproved, StageKinds DEF Current, Stages
<1>4. /\ DOMAIN ops' = DOMAIN ops /\ ops'[key].st = "applied" /\ ops[key].st = "completed"
      /\ \A k \in DOMAIN ops \ {key} : ops'[k] = ops[k]
  BY <1>0 DEF Moved, Is
<1>5. \A k \in DOMAIN ops : ops[k].st = "failed" => ops'[k] = ops[k]
  BY <1>4
<1>6. ASSUME NEW k \in DOMAIN ops' PROVE KeyFits(k)'
  <2>1. KeyFits(k) /\ Superseded' = Superseded
    BY <1>1, <1>4, <1>6 DEF TablesFit, KeysFit, Superseded
  <2>2. Is(<<"review", k[2]>>, "failed") => Is(<<"review", k[2]>>, "failed")'
    BY <1>4, <1>5 DEF Is
  <2>3. k[1] \in Planning /\ ops'[k].st = "applied" => tasks' # <<>>
    <3>1. CASE k = key
      BY <1>2, <3>1
    <3>2. CASE k # key
      BY <1>2, <1>4, <1>6, <2>1, <3>2 DEF KeyFits
    <3> QED BY <3>1, <3>2
  <2> QED BY <2>1, <2>2, <2>3 DEF KeyFits
<1>7. ASSUME NEW r \in DOMAIN revs PROVE RevFits(r)'
  <2>1. RevFits(r) /\ Newest' = Newest
    BY <1>1, <1>7 DEF TablesFit, RevsFit, Newest
  <2>2. revs[r].status \notin {"awaiting_approval", "approved"}
    BY <1>3, <1>7 DEF Approved, Active
  <2>3. r = Newest => revs[r].status = "superseded"
    BY <1>3, <1>7 DEF Unplanned, Superseded
  <2> QED BY <2>1, <2>2, <2>3 DEF RevFits
<1>8. RevsFit'
  <2>1. \A r \in DOMAIN revs' : RevFits(r)'
    BY <1>7
  <2>2. \A t \in DOMAIN tasks' \ Live' : \E r \in DOMAIN revs' : t \in revs'[r].tasks
    BY <1>1, <1>2 DEF TablesFit, RevsFit, Canceled
  <2> QED BY <1>1, <1>2, <2>1, <2>2 DEF TablesFit, RevsFit, Newest
<1>9. ReviewsMatchLedger'
  <2>1. ASSUME NEW r \in DOMAIN revs, NEW i \in Approvers PROVE Matches(r, i)'
    <3>1. \A k \in ReviewKeys(r, i) : k # key
      <4>1. r \in Nat
        BY DEF PlanInv, CallInv, TablesShape
      <4> QED BY <1>0, <4>1, MadeKeys, StageKinds DEF ReviewKeys
    <3>2. \A k \in ReviewKeys(r, i) : /\ Is(k, "applied")' <=> Is(k, "applied")
                                      /\ Is(k, "applied") => ops'[k] = ops[k]
      BY <1>4, <3>1 DEF Is
    <3> QED BY <1>1, <3>2, MatchesAll, MatchStays DEF TablesFit
  <2>2. ReviewsMatchLedger' <=> \A r \in DOMAIN revs', i \in Approvers : Matches(r, i)'
    BY DEF ReviewsMatchLedger, Matches, ReviewKeys
  <2> QED BY <2>1, <2>2
<1> QED BY <1>2, <1>6, <1>8, <1>9 DEF TablesFit, KeysFit

LEMMA PlanApplies ==
  ASSUME PlanInv, ApplyPlan \/ ApplyContestVerdict
  PROVE  PlanAfter /\ TablesShape'
<1>0. /\ CallInv /\ pc = "apply" /\ Applied /\ UNCHANGED <<revs, asked>>
      /\ call.key[1] \in Planning \cup Contests /\ call.key[1] \notin Reviews
  BY StageKinds DEF PlanInv, ApplyPlan, ApplyContestVerdict
<1>1. /\ Current(call.key) /\ Approved = {} /\ call.key \in DOMAIN ops /\ ops[call.key].answer \in Answers(call.key[1])
      /\ \/ Is(call.key, "completed") /\ ~Replayed /\ Moved(call.key, "applied")
         \/ Is(call.key, "applied") /\ Replayed /\ UNCHANGED ops
  BY <1>0, ApplyEffect, InCallIs DEF InCall
<1>2. OpenKeys' = {}
  BY <1>0, AppliesAfter
<1>3. /\ Replayed => UNCHANGED tasks
      /\ ~Replayed => AddTasks(PlanSize) \/ (call.key[1] \in Contests /\ UNCHANGED tasks)
  BY DEF ApplyPlan, ApplyContestVerdict
<1>4. TablesFit' /\ tasks' \in Seq(TaskStatus)
  <2>1. CASE Replayed
    BY <1>0, <1>1, <1>3, <2>1, PlanStays DEF CallInv, TablesShape, TaskStatus
  <2>2. CASE ~Replayed
    BY <1>0, <1>1, <1>3, <2>2, PlanAdds
  <2> QED BY <2>1, <2>2
<1>5. ApplyPlan => tasks' # <<>>
  <2> SUFFICES ASSUME ApplyPlan PROVE tasks' # <<>>
    OBVIOUS
  <2>1. CASE Replayed
    <3>1. KeyFits(call.key) /\ ops[call.key].st = "applied" /\ call.key[1] \in Planning
      BY <1>1, <2>1 DEF PlanInv, TablesFit, KeysFit, ApplyPlan, Is, Replayed, Status
    <3> QED BY <1>3, <2>1, <3>1 DEF KeyFits
  <2>2. CASE ~Replayed
    BY <1>0, <2>2, TasksAdded DEF ApplyPlan, CallInv, TablesShape, TaskStatus
  <2> QED BY <2>1, <2>2
<1>6. ApplyContestVerdict /\ pc' \in {"raise", "settle"} => Unplanned'
  <2>1. ApplyContestVerdict => Unplanned
    BY <1>1 DEF Current, ApplyContestVerdict
  <2>2. ApplyContestVerdict => call.key[1] \in Contests
    BY DEF ApplyContestVerdict
  <2>3. ApplyContestVerdict => ops[call.key].answer \in {"amend", "reject", "ask_back"}
    BY <1>1, <2>2, StageKinds DEF Answers
  <2>4. ApplyContestVerdict /\ pc' \in {"raise", "settle"} => UNCHANGED tasks
    BY <2>3 DEF ApplyContestVerdict, AfterVerdict
  <2> QED BY <1>0, <2>1, <2>4 DEF Unplanned
<1>7. /\ ApplyPlan => pc' = "resume" \/ (pc' = "negotiate" /\ Negotiation) \/ (pc' = "execute" /\ ~Negotiation)
      /\ ApplyContestVerdict => pc' \in {"resume", "raise", "settle"}
  <2>1. ApplyPlan => pc' = "resume" \/ (pc' = "negotiate" /\ Negotiation) \/ (pc' = "execute" /\ ~Negotiation)
    BY DEF ApplyPlan, AfterPlan
  <2>2. ApplyContestVerdict => call.key[1] \in Contests
    BY DEF ApplyContestVerdict
  <2>3. ApplyContestVerdict => ops[call.key].answer \in {"amend", "reject", "ask_back"}
    BY <1>1, <2>2, StageKinds DEF Answers
  <2>4. ApplyContestVerdict => pc' \in {"resume", "raise", "settle"}
    BY <2>3 DEF ApplyContestVerdict, AfterVerdict
  <2> QED BY <2>1, <2>4
<1>8. Approved' = {}
  BY <1>0, <1>1 DEF Approved
<1>9. PhaseFits'
  BY <1>2, <1>5, <1>6, <1>7, <1>8 DEF PhaseFits
<1>10. CurrentFits'
  BY <1>2, <1>7 DEF CurrentFits, InCall
<1>11. DoneFits'
  <2>1. \A t \in DOMAIN tasks : tasks[t] # "completed"
    BY <1>0, NotDone DEF Rest, Quiet
  <2>2. \A t \in DOMAIN tasks' : tasks'[t] # "completed"
    BY <1>0, <1>3, <2>1, TasksAdded DEF Undone, CallInv, TablesShape, TaskStatus
  <2>3. asked' \notin {"collecting", "published"}
    BY <1>0, NotAsking DEF Rest, Quiet
  <2> QED BY <2>2, <2>3 DEF DoneFits
<1> QED BY <1>0, <1>4, <1>9, <1>10, <1>11 DEF PlanAfter, TablesShape, TaskStatus, CallInv

LEMMA PlanReviewed ==
  ASSUME PlanInv, ApplyPlanReview
  PROVE  PlanAfter /\ TablesShape'
<1>0. CallInv /\ pc = "apply" /\ Applied /\ UNCHANGED <<tasks, asked>> /\ call.key[1] \in Reviews
  BY DEF PlanInv, ApplyPlanReview
<1>1. PICK key : /\ key = call.key /\ Current(key) /\ key[1] \in Reviews /\ Is(key, "completed")
                 /\ Moved(key, "applied") /\ ops[key].answer \in {"approve", "object"}
  <2>1. Is(call.key, "completed") /\ Current(call.key)
    BY <1>0 DEF PlanInv, CurrentFits, InCall
  <2>2. Moved(call.key, "applied") /\ ops[call.key].answer \in {"approve", "object"}
    BY <1>0, <2>1, ApplyEffect, StageKinds DEF Is, Answers
  <2>3. \A k : k = call.key => Current(k) /\ Is(k, "completed") /\ Moved(k, "applied")
    BY <2>1, <2>2 DEF Current, Is, Moved
  <2> QED BY <1>0, <2>2, <2>3
<1>2. PICK r \in Nat : r = Newest /\ r \in Active /\ r \in DOMAIN revs
  <2>1. Newest \in Active /\ revs \in Seq(RevRow)
    BY <1>0, <1>1 DEF Current, CallInv, TablesShape
  <2> QED BY <2>1 DEF Active, Newest
<1>3. PICK i \in Approvers : revs[r].reviews[i] = "none" /\ key \in ReviewKeys(r, i)
  BY <1>1, <1>2 DEF Current, Unreviewed
<1>4. PICK d \in {"approve", "object"} : d = ops[key].answer
  BY <1>1
<1>5. revs' = Reviewed(r, i, d)
  <2>1. ReviewOf(key) = [rev |-> r, agent |-> i]
    BY <1>3, SameReview
  <2>2. ~Replayed
    BY <1>1 DEF Replayed, Status, Is
  <2> QED BY <1>1, <1>4, <2>1, <2>2 DEF ApplyPlanReview, Reviewed
<1>6. /\ RevsKept(r) /\ revs'[r].status = revs[r].status /\ revs'[r].reviews[i] = d
      /\ \A j \in Approvers \ {i} : revs'[r].reviews[j] = revs[r].reviews[j]
  <2>1. revs \in Seq(RevRow)
    BY <1>0 DEF CallInv, TablesShape
  <2> QED BY <1>2, <1>5, <2>1, RevReviewed
<1>7. /\ DOMAIN ops' = DOMAIN ops /\ ops[key].st = "completed" /\ key \in DOMAIN ops
      /\ ops'[key] = [st |-> "applied", answer |-> d]
      /\ \A k \in DOMAIN ops \ {key} : ops'[k] = ops[k]
  BY <1>1, <1>4 DEF Moved, Is
<1>8. /\ Newest' = Newest /\ Superseded' = Superseded /\ Active' = Active /\ Approved' = Approved /\ Live' = Live
      /\ DOMAIN revs' = DOMAIN revs /\ \A s \in DOMAIN revs : revs'[s].status = revs[s].status /\ revs'[s].tasks = revs[s].tasks
  <2>1. DOMAIN revs' = DOMAIN revs /\ Newest' = Newest
        /\ \A s \in DOMAIN revs : revs'[s].status = revs[s].status /\ revs'[s].tasks = revs[s].tasks
    BY <1>6 DEF RevsKept, Newest
  <2> QED BY <1>0, <2>1 DEF Superseded, Active, Approved, Live
<1>9. \A s : Is(s, "failed") => Is(s, "failed")'
  BY <1>7 DEF Is
<1>10. ASSUME NEW k \in DOMAIN ops' PROVE KeyFits(k)'
  <2>1. KeyFits(k)
    BY <1>7, <1>10 DEF PlanInv, TablesFit, KeysFit
  <2>2. k[1] \in Planning /\ ops'[k].st = "applied" => ops[k].st = "applied"
    BY <1>1, <1>7, <1>10, StageKinds
  <2>3. Is(<<"review", k[2]>>, "failed") => Is(<<"review", k[2]>>, "failed")'
    BY <1>9
  <2> QED BY <1>0, <1>8, <2>1, <2>2, <2>3 DEF KeyFits
<1>11. Doomed(r) => Doomed(r)'
  <2>1. \A j \in Approvers : revs[r].reviews[j] = "object" => revs'[r].reviews[j] = "object"
    BY <1>3, <1>6
  <2> QED BY <1>9, <2>1 DEF Doomed
<1>12. ASSUME NEW s \in DOMAIN revs PROVE RevFits(s)'
  <2>1. RevFits(s)
    BY <1>12 DEF PlanInv, TablesFit, RevsFit
  <2>2. CASE s # r
    BY <1>2, <1>8, <2>1, <2>2 DEF RevFits
  <2>3. CASE s = r
    BY <1>2, <1>8, <1>11, <2>1, <2>3 DEF RevFits, Active
  <2> QED BY <2>2, <2>3
<1>13. RevsFit'
  <2>1. \A s \in DOMAIN revs' : RevFits(s)'
    BY <1>8, <1>12
  <2>2. revs # <<>> /\ Negotiation /\ tasks # <<>>
    BY <1>2 DEF PlanInv, TablesFit, RevsFit
  <2>3. \A t \in DOMAIN tasks' \ Live' : \E s \in DOMAIN revs' : t \in revs'[s].tasks
    BY <1>0, <1>8 DEF PlanInv, TablesFit, RevsFit
  <2> QED BY <1>0, <1>8, <2>1, <2>2, <2>3 DEF PlanInv, TablesFit, RevsFit
<1>14. ASSUME NEW s \in DOMAIN revs, NEW j \in Approvers PROVE Matches(s, j)'
  <2>1. Matches(s, j) /\ s \in Nat
    BY MatchesAll DEF PlanInv, TablesFit, CallInv, TablesShape
  <2>2. CASE s = r /\ j = i
    <3>1. \A k \in ReviewKeys(r, i) \cap DOMAIN ops : ops[k].st # "applied"
      <4>1. ASSUME NEW k \in ReviewKeys(r, i) \cap DOMAIN ops, ops[k].st = "applied" PROVE FALSE
        <5>1. ops[k].answer = "none"
          BY <1>3, <2>1, <2>2, <4>1 DEF Matches
        <5>2. ops[k].answer \in Answers(k[1]) /\ k[1] \in Reviews
          BY <1>3, <4>1, SameReview DEF CallInv, OpsShape, IsRow, PlanInv
        <5> QED BY <5>1, <5>2, StageKinds DEF Answers
      <4> QED BY <4>1
    <3>2. {k \in ReviewKeys(r, i) \cap DOMAIN ops' : ops'[k].st = "applied"} = {key}
      <4>1. \A k \in ReviewKeys(r, i) \cap DOMAIN ops' : ops'[k].st = "applied" => k = key
        BY <1>7, <3>1
      <4> QED BY <1>3, <1>7, <4>1
    <3>3. ops'[key].answer = revs'[r].reviews[i]
      BY <1>6, <1>7
    <3>4. ReviewKeys(r, i)' = ReviewKeys(r, i)
      BY DEF ReviewKeys, ReviewKey, RepairKey
    <3> QED BY <2>2, <3>2, <3>3, <3>4 DEF Matches
  <2>3. CASE ~(s = r /\ j = i)
    <3>1. key \notin ReviewKeys(s, j)
      BY <1>3, <2>1, <2>3, SameReview
    <3>2. \A k \in ReviewKeys(s, j) : /\ Is(k, "applied")' <=> Is(k, "applied")
                                      /\ Is(k, "applied") => ops'[k] = ops[k]
      BY <1>7, <3>1 DEF Is
    <3>3. revs'[s].reviews[j] = revs[s].reviews[j]
      BY <1>6, <2>3 DEF RevsKept
    <3> QED BY <2>1, <3>2, <3>3, MatchStays
  <2> QED BY <2>2, <2>3
<1>15. ReviewsMatchLedger'
  <2>1. ReviewsMatchLedger' <=> \A s \in DOMAIN revs', j \in Approvers : Matches(s, j)'
    BY DEF ReviewsMatchLedger, Matches, ReviewKeys
  <2> QED BY <1>8, <1>14, <2>1
<1>16. OpenKeys' = {}
  BY <1>0, AppliesAfter
<1>17. pc' = (IF d = "object" THEN "verdict" ELSE "review")
  BY <1>1, <1>4 DEF ApplyPlanReview
<1>18. CurrentFits'
  BY <1>16, <1>17 DEF CurrentFits, InCall
<1>19. Approved = {}
  BY <1>0, InCallIs DEF InCall
<1>20. PhaseFits'
  <2>1. Negotiation /\ tasks # <<>>
    BY <1>2 DEF PlanInv, TablesFit, RevsFit
  <2>2. pc' = "verdict" => Doomed(r)'
    BY <1>6, <1>17 DEF Doomed
  <2>3. pc' = "verdict" => Doomed(Newest)'
    BY <1>2, <1>8, <2>2 DEF Doomed
  <2> QED BY <1>0, <1>2, <1>8, <1>16, <1>17, <1>19, <2>1, <2>3 DEF PhaseFits
<1>21. TablesShape'
  BY <1>0, <1>6 DEF CallInv, TablesShape, RevsKept
<1> QED BY <1>0, <1>10, <1>13, <1>15, <1>18, <1>20, <1>21, NotDone
        DEF PlanAfter, TablesFit, KeysFit, Rest, Quiet

-----------------------------------------------------------------------------
(* Negotiation                                                             *)

LEMMA NewestPlan ==
  ASSUME PlanInv, revs # <<>>
  PROVE  /\ Newest \in DOMAIN revs /\ Newest \in Nat /\ Newest # 0 /\ RevFits(Newest)
         /\ Active \subseteq {Newest} /\ Approved \subseteq {Newest} /\ Newest <= MaxRevisions
         /\ revs[Newest].status \in RevStatus /\ DOMAIN revs = 1 .. Newest
<1>1. revs \in Seq(RevRow)
  BY DEF PlanInv, CallInv, TablesShape
<1>2. Newest \in Nat \ {0} /\ DOMAIN revs = 1 .. Newest /\ Newest \in DOMAIN revs
  BY <1>1, EmptySeq, LenProperties DEF Newest
<1>3. revs[Newest].status \in RevStatus
  <2>1. revs[Newest] \in RevRow
    <3> HIDE DEF RevRow
    <3>1. Newest \in 1 .. Len(revs)
      BY <1>2
    <3> QED BY <1>1, <3>1, ElementOfSeq
  <2> QED BY <2>1 DEF RevRow
<1>4. /\ Newest <= MaxRevisions /\ RevFits(Newest)
      /\ \A r \in DOMAIN revs : r # Newest => revs[r].status \in {"superseded", "abandoned"}
  BY <1>2 DEF PlanInv, TablesFit, RevsFit, RevFits
<1>5. Active \subseteq {Newest} /\ Approved \subseteq {Newest}
  BY <1>4 DEF Active, Approved
<1> QED BY <1>2, <1>3, <1>4, <1>5

LEMMA MaxIsNewest ==
  ASSUME PlanInv, NEW S \in SUBSET DOMAIN revs, Newest \in S
  PROVE  Max(S) = Newest
<1>1. revs # <<>>
  OBVIOUS
<1>2. Max(S) \in DOMAIN revs /\ Newest <= Max(S) /\ Max(S) \in Nat
  BY NewestIsIn DEF PlanInv, CallInv
<1> QED BY <1>1, <1>2, NewestPlan

LEMMA Negotiating ==
  ASSUME PlanInv, pc \in {"negotiate", "review", "verdict", "discard", "abandon"}
  PROVE  /\ Approved = {} /\ Negotiation /\ tasks # <<>> /\ CallInv
         /\ Active = {} /\ ~ReplanIsOpen => OpenKeys = {}
         /\ Active # {} => Newest \in Active /\ Active = {Newest}
<1>1. Approved = {} /\ Negotiation /\ tasks # <<>> /\ CallInv
  BY DEF PlanInv, PhaseFits, Rest
<1>2. Active = {} /\ ~ReplanIsOpen => OpenKeys = {}
  BY <1>1, WhatIsOpen
<1>3. Active # {} => Newest \in Active /\ Active = {Newest}
  <2>1. Active # {} => revs # <<>>
    BY DEF Active
  <2> QED BY <2>1, NewestPlan
<1> QED BY <1>1, <1>2, <1>3

\* While negotiating, a step that changes neither the ledger nor the plan.
LEMMA NegotiationStays ==
  ASSUME PlanInv, UNCHANGED <<ops, tasks, revs, asked>>,
         pc \in {"negotiate", "review", "verdict", "discard", "abandon"},
         \/ pc' = "error"
         \/ pc' = "review" /\ Active # {}
         \/ pc' = "verdict" /\ Active # {} /\ OpenKeys = {} /\ Unreviewed(Newest) = {}
         \/ pc' = "abandon" /\ Active = {} /\ Live = {} /\ OpenKeys = {}
         \/ pc' = "abandon" /\ Active # {} /\ Doomed(Newest) /\ Newest >= MaxRevisions /\ OpenKeys = {}
  PROVE  PlanAfter
<1>1. TablesFit' /\ CurrentFits' /\ OpenKeys' = OpenKeys /\ (Doomed(Newest) => Doomed(Newest)')
  BY PlanStays, SameTables DEF InCall, Doomed, Is
<1>2. Approved = {} /\ Negotiation /\ tasks # <<>> /\ (Active # {} => Newest \in Active)
  BY Negotiating
<1>3. PhaseFits'
  BY <1>1, <1>2, SameTables DEF PhaseFits
<1> QED BY <1>1, <1>3, NotDone DEF PlanAfter, Rest, Quiet

LEMMA PlanReplans ==
  ASSUME PlanInv, ResumeReplan \/ ReplanAgain \/ ContinueRevision \/ AskReview
  PROVE  PlanAfter
<1>0. /\ pc \in {"negotiate", "review"} /\ UNCHANGED <<tasks, revs, asked>> /\ CallInv
      /\ Approved = {} /\ tasks # <<>>
  BY Negotiating DEF ResumeReplan, ReplanAgain, ContinueRevision, AskReview, tables
<1>1. CASE ResumeReplan
  <2>1. PICK k \in OpenKeys : (k[1] = "planning" /\ Asked(k)) \/ Raise
    BY <1>0, <1>1, ResumeReplanEffect
  <2>2. CASE k[1] = "planning" /\ Asked(k)
    BY <1>0, <2>2, WhatIsOpen, PlanAsked DEF PlanAfter, Rest, Quiet
  <2>3. CASE Raise
    BY <1>0, <2>3, NegotiationStays DEF Raise
  <2> QED BY <2>1, <2>2, <2>3
<1>2. CASE ReplanAgain
  <2>1. pc = "negotiate" /\ ~ReplanIsOpen /\ Active = {} /\ Live = {}
    BY <1>2 DEF ReplanAgain
  <2>2. OpenKeys = {}
    BY <2>1, Negotiating
  <2>3. CASE UNCHANGED <<ops, call>> /\ pc' \in {"abandon", "error"}
    BY <1>0, <2>1, <2>2, <2>3, NegotiationStays
  <2>4. CASE /\ NextRevision(Len(revs)) # 0
             /\ \E r \in Superseded : r = Max(Superseded) /\ Asked(ReplanKey(r))
    <3>1. PICK r \in Superseded : r = Max(Superseded) /\ Asked(ReplanKey(r))
      BY <2>4
    <3>2. revs # <<>> /\ Superseded \subseteq DOMAIN revs
      BY DEF Superseded
    <3>3. Newest \in Superseded
      <4>1. Newest < MaxRevisions
        BY <2>4, <3>2, NewestPlan, PlanConstants DEF NextRevision, Newest
      <4>2. revs[Newest].status \notin {"awaiting_approval", "approved", "abandoned"}
        BY <1>0, <2>1, <3>2, <4>1, NewestPlan, PlanConstants DEF Active, Approved, RevFits
      <4> QED BY <3>2, <4>2, NewestPlan DEF Superseded, RevStatus
    <3>4. r = Newest /\ r \in Nat /\ r # 0
      BY <3>1, <3>2, <3>3, MaxIsNewest, NewestPlan
    <3>5. PICK key : key = ReplanKey(r) /\ Asked(key)
      <4>1. \A k : k = ReplanKey(r) => Asked(k)
        BY <3>1 DEF Asked, Reserved, Is, IsKey
      <4> QED BY <4>1
    <3>6. key \in Replans(Newest) /\ key[1] = "planning" /\ key \notin FirstPlans
      BY <3>4, <3>5, MadeKeys, ReplansDiffer DEF Replans
    <3>7. Current(key)
      BY <2>1, <3>3, <3>6, StageKinds DEF Current
    <3> QED BY <1>0, <3>5, <3>6, <3>7, PlanAsked DEF PlanAfter, Rest, Quiet
  <2> QED BY <1>0, <1>2, <2>3, <2>4, ReplanAgainEffect
<1>3. CASE ContinueRevision
  BY <1>0, <1>3, NegotiationStays DEF ContinueRevision
<1>4. CASE AskReview
  <2>1. PICK r \in Active :
           /\ r = Max(Active) /\ r \in DOMAIN revs /\ r \in Nat
           /\ \/ Unreviewed(r) = {} /\ pc' = "verdict" /\ UNCHANGED <<ops, call>>
              \/ \E i \in Unreviewed(r) :
                   \/ Asked(ReviewKey(r, i))
                   \/ /\ RepairKey(ReviewKey(r, i)) \in OpenKeys
                      /\ Status(ReviewKey(r, i)) = "failed" /\ Asked(RepairKey(ReviewKey(r, i)))
    BY <1>0, <1>4, AskReviewEffect
  <2>2. r = Newest /\ Newest \in Active
    BY <1>0, <2>1, Negotiating
  <2>3. CASE Unreviewed(r) = {} /\ pc' = "verdict" /\ UNCHANGED <<ops, call>>
    <3>1. \A k \in OpenKeys : FALSE
      BY <1>0, <2>2, <2>3, WhatIsOpen
    <3> QED BY <1>0, <2>2, <2>3, <3>1, NegotiationStays
  <2>4. ASSUME NEW i \in Unreviewed(r),
               \/ Asked(ReviewKey(r, i))
               \/ /\ RepairKey(ReviewKey(r, i)) \in OpenKeys
                  /\ Status(ReviewKey(r, i)) = "failed" /\ Asked(RepairKey(ReviewKey(r, i)))
        PROVE  PlanAfter
    <3>1. i \in Approvers
      BY DEF Unreviewed
    <3>2. PICK key \in ReviewKeys(r, i) :
            Asked(key) /\ (key[1] = "review_repair" => Is(<<"review", key[2]>>, "failed"))
      <4>1. CASE Asked(ReviewKey(r, i))
        <5>1. \A k : k = ReviewKey(r, i) => Asked(k)
          BY <4>1 DEF Asked, Reserved, Is, IsKey
        <5> QED BY <2>1, <3>1, <5>1, MadeKeys DEF ReviewKeys
      <4>2. CASE /\ Status(ReviewKey(r, i)) = "failed" /\ Asked(RepairKey(ReviewKey(r, i)))
        <5>1. \A k : k = RepairKey(ReviewKey(r, i)) => Asked(k)
          BY <4>2 DEF Asked, Reserved, Is, IsKey
        <5>2. <<"review", RepairKey(ReviewKey(r, i))[2]>> = ReviewKey(r, i)
          BY DEF ReviewKey, RepairKey
        <5>3. Is(ReviewKey(r, i), "failed")
          BY <4>2 DEF Status, Is
        <5> QED BY <2>1, <3>1, <5>1, <5>2, <5>3 DEF ReviewKeys
      <4> QED BY <2>4, <4>1, <4>2
    <3>3. key[1] \in Reviews /\ key \notin FirstPlans
      BY <2>1, <3>1, <3>2, MadeKeys, StageKinds, FirstPlansAre DEF ReviewKeys
    <3>4. Current(key)
      BY <2>2, <2>4, <3>2, <3>3, StageKinds DEF Current
    <3> QED BY <1>0, <3>2, <3>4, PlanAsked DEF PlanAfter, Rest, Quiet
  <2> QED BY <2>1, <2>3, <2>4
<1> QED BY <1>1, <1>2, <1>3, <1>4

LEMMA PlanProposed ==
  ASSUME PlanInv, CreateRevision
  PROVE  PlanAfter /\ TablesShape'
<1>0. /\ pc = "negotiate" /\ ~ReplanIsOpen /\ Active = {} /\ Live # {} /\ UNCHANGED <<ops, tasks, asked>>
      /\ CallInv /\ Approved = {} /\ OpenKeys = {} /\ Negotiation /\ tasks # <<>>
      /\ revs \in Seq(RevRow) /\ tasks \in Seq(TaskStatus) /\ Newest \in Nat /\ TablesFit
  BY Negotiating DEF CreateRevision, CallInv, TablesShape, TaskStatus, Newest, PlanInv
<1>1. ~(Newest >= MaxRevisions)
  <2>1. SUFFICES ASSUME Newest >= MaxRevisions PROVE FALSE
    OBVIOUS
  <2>2. revs # <<>>
    BY <1>0, <2>1, PlanConstants DEF Newest
  <2>3. revs[Newest].status \notin {"awaiting_approval", "approved"}
    BY <1>0, <2>2, NewestPlan DEF Active, Approved
  <2> QED BY <1>0, <2>1, <2>2, <2>3, NewestPlan, PlanConstants DEF RevFits, RevStatus
<1>2. /\ pc' = "review"
      /\ revs' = revs \o <<[status |-> "awaiting_approval", tasks |-> Live, reviews |-> NoReviews]>>
  <2>1. NextRevision(Len(revs)) # 0
    BY <1>0, <1>1 DEF NextRevision, Newest
  <2> QED BY <2>1 DEF CreateRevision
<1>3. PICK r \in Nat : /\ r = Newest + 1 /\ revs' \in Seq(RevRow) /\ Len(revs') = r
                       /\ DOMAIN revs' = DOMAIN revs \cup {r} /\ r \notin DOMAIN revs
                       /\ revs'[r] = [status |-> "awaiting_approval", tasks |-> Live, reviews |-> NoReviews]
                       /\ \A s \in DOMAIN revs : revs'[s] = revs[s]
  BY <1>0, <1>2, RevAdded DEF Newest
<1>4. /\ Newest' = r /\ Live' = Live /\ Superseded' = Superseded /\ Active' = {r} /\ Approved' = {}
      /\ OpenKeys' = {}
  BY <1>0, <1>3 DEF Newest, Live, Superseded, Active, Approved, OpenKeys
<1>5. ASSUME NEW s \in DOMAIN revs PROVE revs[s].status \in {"superseded", "abandoned"} /\ RevFits(s) /\ s \in Nat
  <2>1. s \in 1 .. Len(revs) /\ s \in Nat
    BY <1>0, LenProperties
  <2>2. revs[s] \in RevRow
    <3> HIDE DEF RevRow
    <3> QED BY <1>0, <2>1, ElementOfSeq
  <2>3. revs[s].status \in RevStatus
    BY <2>2 DEF RevRow
  <2> QED BY <1>0, <2>1, <2>3 DEF TablesFit, RevsFit, Active, Approved, RevStatus
<1>6. ASSUME NEW k \in DOMAIN ops' PROVE KeyFits(k)'
  <2>1. KeyFits(k)
    BY <1>0, <1>6 DEF TablesFit, KeysFit
  <2>2. Is(<<"review", k[2]>>, "failed")' <=> Is(<<"review", k[2]>>, "failed")
    BY <1>0 DEF Is
  <2> QED BY <1>0, <1>3, <1>4, <2>1, <2>2 DEF KeyFits
<1>7. ASSUME NEW s \in DOMAIN revs' PROVE RevFits(s)'
  <2>1. CASE s = r
    BY <1>3, <1>4, <2>1 DEF RevFits
  <2>2. CASE s # r
    BY <1>3, <1>4, <1>5, <1>7, <2>2 DEF RevFits
  <2> QED BY <2>1, <2>2
<1>8. RevsFit'
  <2>1. r <= MaxRevisions
    BY <1>0, <1>1, <1>3, PlanConstants
  <2>2. \A t \in DOMAIN tasks' \ Live' : \E s \in DOMAIN revs' : t \in revs'[s].tasks
    BY <1>0, <1>3, <1>4 DEF TablesFit, RevsFit
  <2> QED BY <1>0, <1>4, <1>7, <2>1, <2>2 DEF RevsFit
<1>9. ASSUME NEW s \in DOMAIN revs', NEW j \in Approvers PROVE Matches(s, j)'
  <2>1. CASE s \in DOMAIN revs
    <3>1. \A k : /\ Is(k, "applied")' <=> Is(k, "applied")
                 /\ Is(k, "applied") => ops'[k] = ops[k]
      BY <1>0 DEF Is
    <3> QED BY <1>0, <1>3, <2>1, <3>1, MatchesAll, MatchStays DEF TablesFit
  <2>2. CASE s = r
    <3>1. revs'[r].reviews[j] = "none"
      BY <1>3 DEF NoReviews
    <3>2. ASSUME NEW k \in ReviewKeys(r, j) \cap DOMAIN ops PROVE FALSE
      <4>1. k[1] \in Reviews
        BY <3>2, SameReview
      <4>2. PICK q \in DOMAIN revs, i \in Approvers : k \in ReviewKeys(q, i)
        BY <1>0, <3>2, <4>1 DEF TablesFit, KeysFit, KeyFits
      <4>3. q = r
        BY <1>5, <3>2, <4>2, SameReview
      <4> QED BY <1>3, <4>2, <4>3
    <3>3. ReviewKeys(r, j)' = ReviewKeys(r, j)
      BY DEF ReviewKeys, ReviewKey, RepairKey
    <3>4. {k \in ReviewKeys(r, j) \cap DOMAIN ops' : ops'[k].st = "applied"} = {}
      BY <1>0, <3>2
    <3> QED BY <2>2, <3>1, <3>3, <3>4 DEF Matches
  <2> QED BY <1>3, <2>1, <2>2
<1>10. ReviewsMatchLedger'
  <2>1. ReviewsMatchLedger' <=> \A s \in DOMAIN revs', j \in Approvers : Matches(s, j)'
    BY DEF ReviewsMatchLedger, Matches, ReviewKeys
  <2> QED BY <1>9, <2>1
<1>11. PhaseFits'
  BY <1>0, <1>2, <1>4 DEF PhaseFits
<1>12. CurrentFits'
  BY <1>2, <1>4 DEF CurrentFits, InCall
<1>13. TablesShape'
  BY <1>0, <1>3 DEF TablesShape, TaskStatus
<1> QED BY <1>0, <1>6, <1>8, <1>10, <1>11, <1>12, <1>13, NotDone DEF PlanAfter, TablesFit, KeysFit, Rest, Quiet

\* The newest plan is approved, refused or given up.
LEMMA Redecided ==
  ASSUME PlanInv, NEW r \in Active, r = Newest, NEW st \in {"approved", "superseded", "abandoned"},
         revs' = Decided(r, st), UNCHANGED <<ops, tasks>>,
         st = "approved" => \A i \in Approvers : revs[r].reviews[i] = "approve",
         st = "superseded" => r < MaxRevisions,
         st = "abandoned" => r >= MaxRevisions /\ Live = {}
  PROVE  /\ TablesFit' /\ TablesShape' /\ OpenKeys' = OpenKeys /\ Newest' = Newest /\ Live' = Live
         /\ Active' = {} /\ Approved' = (IF st = "approved" THEN {r} ELSE {})
         /\ Superseded' = (IF st = "superseded" THEN Superseded \cup {r} ELSE Superseded)
         /\ revs'[r].tasks = revs[r].tasks
<1>0. /\ TablesFit /\ CallInv /\ revs \in Seq(RevRow) /\ r \in DOMAIN revs /\ revs # <<>>
      /\ Active = {r} /\ Approved = {}
  <2>1. r \in DOMAIN revs /\ revs # <<>> /\ revs[r].status = "awaiting_approval"
    BY DEF Active
  <2> QED BY <2>1, NewestPlan DEF PlanInv, CallInv, TablesShape, Active, Approved
<1>1. RevsKept(r) /\ revs'[r].status = st /\ revs'[r].reviews = revs[r].reviews
  BY <1>0, RevDecided DEF RevStatus
<1>2. /\ OpenKeys' = OpenKeys /\ Newest' = Newest /\ Live' = Live /\ DOMAIN revs' = DOMAIN revs
      /\ revs'[r].tasks = revs[r].tasks /\ \A s \in DOMAIN revs : revs'[s].tasks = revs[s].tasks
  BY <1>1 DEF OpenKeys, Newest, Live, RevsKept
<1>3. /\ Active' = {} /\ Approved' = (IF st = "approved" THEN {r} ELSE {})
      /\ Superseded' = (IF st = "superseded" THEN Superseded \cup {r} ELSE Superseded)
  BY <1>0, <1>1 DEF Active, Approved, Superseded, RevsKept
<1>4. ASSUME NEW k \in DOMAIN ops' PROVE KeyFits(k)'
  <2>1. KeyFits(k)
    BY <1>0, <1>4 DEF TablesFit, KeysFit
  <2>2. Is(<<"review", k[2]>>, "failed")' <=> Is(<<"review", k[2]>>, "failed")
    BY DEF Is
  <2> QED BY <1>2, <1>3, <2>1, <2>2 DEF KeyFits
<1>5. Live \subseteq revs[r].tasks /\ (st = "approved" => Live = revs[r].tasks)
  <2>1. IF Doomed(r) THEN Live \subseteq revs[r].tasks ELSE Live = revs[r].tasks
    BY <1>0 DEF TablesFit, RevsFit, RevFits, Active
  <2>2. ASSUME st = "approved" PROVE ~Doomed(r)
    <3> SUFFICES ASSUME NEW i \in Approvers PROVE ~Is(RepairKey(ReviewKey(r, i)), "failed")
      BY <2>2 DEF Doomed
    <3>1. Matches(r, i) /\ revs[r].reviews[i] = "approve" /\ r \in Nat
      BY <1>0, <2>2, MatchesAll, NewestPlan DEF TablesFit
    <3>2. PICK k \in ReviewKeys(r, i) \cap DOMAIN ops : ops[k].st = "applied"
      BY <3>1 DEF Matches
    <3>3. ASSUME Is(RepairKey(ReviewKey(r, i)), "failed") PROVE FALSE
      <4>1. k = ReviewKey(r, i)
        BY <3>2, <3>3 DEF ReviewKeys, Is
      <4>2. PICK q : q = RepairKey(ReviewKey(r, i)) /\ q \in DOMAIN ops
        BY <3>3 DEF Is
      <4>3. q[1] = "review_repair" /\ <<"review", q[2]>> = ReviewKey(r, i)
        BY <4>2 DEF ReviewKey, RepairKey
      <4>4. Is(ReviewKey(r, i), "failed")
        BY <1>0, <4>2, <4>3 DEF TablesFit, KeysFit, KeyFits
      <4> QED BY <3>2, <4>1, <4>4 DEF Is
    <3> QED BY <3>3
  <2> QED BY <2>1, <2>2
<1>6. ASSUME NEW s \in DOMAIN revs' PROVE RevFits(s)'
  <2>1. RevFits(s)
    BY <1>0, <1>2, <1>6 DEF TablesFit, RevsFit
  <2>2. CASE s = r
    BY <1>1, <1>2, <1>5, <2>2 DEF RevFits
  <2>3. CASE s # r
    BY <1>1, <1>2, <1>6, <2>1, <2>3 DEF RevFits, RevsKept
  <2> QED BY <2>2, <2>3
<1>7. RevsFit'
  BY <1>0, <1>2, <1>6 DEF TablesFit, RevsFit
<1>8. ASSUME NEW s \in DOMAIN revs, NEW j \in Approvers PROVE Matches(s, j)'
  <2>1. \A k : /\ Is(k, "applied")' <=> Is(k, "applied")
               /\ Is(k, "applied") => ops'[k] = ops[k]
    BY DEF Is
  <2>2. revs'[s].reviews[j] = revs[s].reviews[j]
    BY <1>1 DEF RevsKept
  <2> QED BY <1>0, <2>1, <2>2, MatchesAll, MatchStays DEF TablesFit
<1>9. ReviewsMatchLedger'
  <2>1. ReviewsMatchLedger' <=> \A s \in DOMAIN revs', j \in Approvers : Matches(s, j)'
    BY DEF ReviewsMatchLedger, Matches, ReviewKeys
  <2> QED BY <1>2, <1>8, <2>1
<1>10. TablesShape'
  BY <1>0, <1>1 DEF CallInv, TablesShape, RevsKept
<1> QED BY <1>2, <1>3, <1>4, <1>7, <1>9, <1>10 DEF TablesFit, KeysFit

LEMMA PlanDecided ==
  ASSUME PlanInv, Decide
  PROVE  PlanAfter /\ TablesShape'
<1>0. /\ pc = "verdict" /\ UNCHANGED <<ops, tasks, asked>> /\ CallInv /\ Negotiation /\ tasks # <<>>
      /\ OpenKeys = {} /\ Newest \in Active /\ (Doomed(Newest) \/ Unreviewed(Newest) = {})
  BY Negotiating DEF Decide, PlanInv, PhaseFits
<1>1. PICK r \in Active : r = Newest /\ r \in Nat /\ r \in DOMAIN revs
  BY <1>0, NewestPlan DEF Active
<1>2. Max(Active) = r
  BY <1>0, <1>1, MaxIsNewest DEF Active
<1>3. TablesFit /\ RevFits(r) /\ revs[r].status = "awaiting_approval" /\ r <= MaxRevisions /\ MaxRevisions \in Nat
      /\ Active = {r} /\ Approved = {}
  BY <1>0, <1>1, NewestPlan, Negotiating, PlanConstants DEF PlanInv, Active
<1>4. revs[r].reviews \in Reviewing
  <2>1. revs[r] \in RevRow
    <3> HIDE DEF RevRow
    <3> QED BY <1>0, <1>1, ElementOfSeq, LenProperties DEF CallInv, TablesShape
  <2> QED BY <2>1 DEF RevRow
<1>5. CASE Verdict(r) = "approved" /\ pc' = "execute" /\ revs' = Decided(r, "approved")
  <2>1. \A i \in Approvers : revs[r].reviews[i] = "approve"
    BY <1>5 DEF Verdict
  <2>2. TablesFit' /\ TablesShape' /\ OpenKeys' = {} /\ Approved' = {r}
    BY <1>0, <1>1, <1>5, <2>1, Redecided
  <2>3. PhaseFits'
    BY <1>5, <2>2 DEF PhaseFits
  <2>4. CurrentFits'
    BY <1>5, <2>2 DEF CurrentFits, InCall
  <2> QED BY <1>0, <2>2, <2>3, <2>4, NotDone DEF PlanAfter, Rest, Quiet
<1>6. CASE Verdict(r) # "approved" /\ NextRevision(r) = 0 /\ pc' = "abandon" /\ UNCHANGED revs
  <2>1. r >= MaxRevisions
    BY <1>1, <1>3, <1>6 DEF NextRevision
  <2>2. Doomed(r)
    <3>1. CASE Doomed(Newest)
      BY <1>1, <3>1
    <3>2. CASE Unreviewed(Newest) = {}
      <4>1. \A i \in Approvers : revs[r].reviews[i] # "none"
        BY <1>1, <3>2 DEF Unreviewed
      <4>2. \A i \in Approvers : revs[r].reviews[i] \in {"approve", "object"}
        BY <1>4, <4>1 DEF Reviewing
      <4>3. \E i \in Approvers : revs[r].reviews[i] = "object"
        BY <1>6, <4>2 DEF Verdict
      <4> QED BY <4>3 DEF Doomed
    <3> QED BY <1>0, <3>1, <3>2
  <2>3. PlanAfter
    BY <1>0, <1>1, <1>6, <2>1, <2>2, NegotiationStays
  <2> QED BY <1>0, <1>6, <2>3 DEF CallInv, TablesShape
<1>7. CASE Verdict(r) # "approved" /\ NextRevision(r) # 0 /\ pc' = "discard" /\ revs' = Decided(r, "superseded")
  <2>1. r < MaxRevisions
    BY <1>1, <1>3, <1>7 DEF NextRevision
  <2>2. /\ TablesFit' /\ TablesShape' /\ OpenKeys' = {} /\ Approved' = {} /\ Active' = {}
        /\ Superseded' = Superseded \cup {r} /\ Newest' = r /\ Live' = Live /\ revs'[r].tasks = revs[r].tasks
    BY <1>0, <1>1, <1>7, <2>1, Redecided
  <2>3. Live \subseteq revs[r].tasks
    BY <1>3 DEF RevFits
  <2>4. ReplanKey(r) \notin DOMAIN ops
    <3>1. ASSUME ReplanKey(r) \in DOMAIN ops PROVE FALSE
      <4>1. PICK key : key = ReplanKey(r) /\ key \in DOMAIN ops
        BY <3>1
      <4>2. key[1] \in Planning /\ key \notin FirstPlans
        BY <1>1, <4>1, NewestPlan, ReplansDiffer DEF Replans
      <4>3. PICK s \in Superseded : key \in Replans(s)
        BY <1>3, <4>1, <4>2 DEF TablesFit, KeysFit, KeyFits
      <4>4. s \in Nat
        BY <1>0, <4>3 DEF Superseded, CallInv, TablesShape
      <4>5. s = r
        BY <1>1, <4>1, <4>3, <4>4, ReplansDiffer
      <4> QED BY <1>3, <4>3, <4>5 DEF Superseded
    <3> QED BY <3>1
  <2>5. ReplanKey(Newest)' = ReplanKey(r)
    BY <2>2 DEF ReplanKey
  <2>6. PhaseFits'
    BY <1>0, <1>7, <2>2, <2>3, <2>4, <2>5 DEF PhaseFits
  <2>7. CurrentFits'
    BY <1>7, <2>2 DEF CurrentFits, InCall
  <2> QED BY <1>0, <2>2, <2>6, <2>7, NotDone DEF PlanAfter, Rest, Quiet
<1>8. \/ Verdict(r) = "approved" /\ pc' = "execute" /\ revs' = Decided(r, "approved")
      \/ Verdict(r) # "approved" /\ NextRevision(r) = 0 /\ pc' = "abandon" /\ UNCHANGED revs
      \/ Verdict(r) # "approved" /\ NextRevision(r) # 0 /\ pc' = "discard" /\ revs' = Decided(r, "superseded")
  BY <1>2 DEF Decide, Decided
<1> QED BY <1>5, <1>6, <1>7, <1>8

\* A task of a refused plan is cancelled.
LEMMA PlanCancels ==
  ASSUME PlanInv, NEW t \in Pending, CancelTask(t), UNCHANGED <<ops, revs>>,
         Approved = {}, \E r \in DOMAIN revs : t \in revs[r].tasks,
         Active # {} => Doomed(Newest) /\ Active = {Newest}
  PROVE  /\ TablesFit' /\ TablesShape' /\ OpenKeys' = OpenKeys /\ Live' = Live \ {t}
         /\ Active' = Active /\ Superseded' = Superseded /\ Approved' = {} /\ Newest' = Newest
         /\ (Undone => Undone') /\ (tasks' = <<>> => tasks = <<>>) /\ (Doomed(Newest) => Doomed(Newest)')
<1>0. tasks \in Seq(TaskStatus) /\ t \in DOMAIN tasks /\ TablesFit /\ CallInv
  BY DEF Pending, PlanInv, CallInv, TablesShape, TaskStatus
<1>1. /\ tasks' \in Seq(TaskStatus) /\ DOMAIN tasks' = DOMAIN tasks /\ (tasks' = <<>> => tasks = <<>>)
      /\ Canceled' = Canceled \cup {t} /\ Live' = Live \ {t} /\ (Undone => Undone')
  BY <1>0, TaskCanceled
<1>2. /\ OpenKeys' = OpenKeys /\ Active' = Active /\ Superseded' = Superseded /\ Approved' = {}
      /\ Newest' = Newest /\ (Doomed(Newest) => Doomed(Newest)')
  BY DEF OpenKeys, Active, Superseded, Approved, Newest, Doomed, Is
<1>3. ASSUME NEW k \in DOMAIN ops' PROVE KeyFits(k)'
  <2>1. KeyFits(k)
    BY <1>0, <1>3 DEF TablesFit, KeysFit
  <2>2. Is(<<"review", k[2]>>, "failed")' <=> Is(<<"review", k[2]>>, "failed")
    BY DEF Is
  <2> QED BY <1>1, <1>2, <2>1, <2>2 DEF KeyFits
<1>4. ASSUME NEW r \in DOMAIN revs PROVE RevFits(r)'
  <2>1. RevFits(r) /\ revs[r].status # "approved"
    BY <1>0, <1>4 DEF TablesFit, RevsFit, Approved
  <2>2. CASE r \in Active
    <3>1. r = Newest /\ Doomed(r)
      BY <2>2
    <3>2. Doomed(r)'
      BY <1>2, <3>1 DEF Doomed, Is
    <3> QED BY <1>1, <1>2, <2>1, <3>1, <3>2 DEF RevFits, Active
  <2>3. CASE r \notin Active
    BY <1>1, <1>2, <1>4, <2>1, <2>3 DEF RevFits, Active
  <2> QED BY <2>2, <2>3
<1>5. RevsFit'
  <2>1. \A s \in DOMAIN tasks' \ Live' : \E r \in DOMAIN revs' : s \in revs'[r].tasks
    BY <1>0, <1>1 DEF TablesFit, RevsFit, Canceled
  <2> QED BY <1>0, <1>1, <1>2, <1>4, <2>1 DEF TablesFit, RevsFit
<1>6. ReviewsMatchLedger'
  <2>1. ReviewsMatchLedger
    BY <1>0 DEF TablesFit
  <2> QED BY <2>1 DEF ReviewsMatchLedger
<1>7. TablesShape'
  BY <1>0, <1>1 DEF CallInv, TablesShape, TaskStatus
<1> QED BY <1>1, <1>2, <1>3, <1>5, <1>6, <1>7 DEF TablesFit, KeysFit

LEMMA PendingIsLive ==
  ASSUME PlanInv, \A t \in DOMAIN tasks : tasks[t] # "completed"
  PROVE  Pending = Live /\ (Pending # {} => Min(Pending) \in Pending)
<1>1. tasks \in Seq(TaskStatus)
  BY DEF PlanInv, CallInv, TablesShape, TaskStatus
<1>2. \A t \in DOMAIN tasks : tasks[t] \in TaskStatus /\ t \in Nat
  BY <1>1, ElementOfSeq, LenProperties
<1>3. Pending = Live
  BY <1>2 DEF Pending, Live, TaskStatus
<1>4. Pending \in SUBSET Nat
  BY <1>2 DEF Pending
<1> QED BY <1>3, <1>4, MinIsIn

LEMMA PlanDiscarded ==
  ASSUME PlanInv, Discard
  PROVE  PlanAfter /\ TablesShape'
<1>0. /\ pc = "discard" /\ UNCHANGED <<revs, asked>> /\ CallInv /\ Negotiation /\ tasks # <<>>
      /\ OpenKeys = {} /\ Newest \in Superseded /\ Live \subseteq revs[Newest].tasks
      /\ ReplanKey(Newest) \notin DOMAIN ops /\ Approved = {}
  BY Negotiating DEF Discard, PlanInv, PhaseFits
<1>1. Newest \in DOMAIN revs /\ Newest \in Nat /\ Newest # 0 /\ Active = {}
  <2>1. Newest \in DOMAIN revs /\ revs # <<>>
    BY <1>0 DEF Superseded
  <2> QED BY <1>0, <2>1, NewestPlan DEF Active, Superseded
<1>2. Undone /\ Pending = Live /\ (Pending # {} => Min(Pending) \in Pending)
  BY <1>0, NotDone, PendingIsLive DEF Undone, Rest, Quiet
<1>3. CASE Pending # {} /\ CancelTask(Min(Pending)) /\ UNCHANGED <<ops, call, pc>>
  <2>1. PICK t \in Pending : t = Min(Pending) /\ CancelTask(t) /\ t \in revs[Newest].tasks
    BY <1>0, <1>2, <1>3
  <2>2. /\ TablesFit' /\ TablesShape' /\ OpenKeys' = {} /\ Live' \subseteq Live /\ Active' = {} /\ Undone'
        /\ Superseded' = Superseded /\ Approved' = {} /\ Newest' = Newest /\ tasks' # <<>>
    BY <1>0, <1>1, <1>2, <1>3, <2>1, PlanCancels
  <2>3. ReplanKey(Newest)' = ReplanKey(Newest)
    BY <2>2 DEF ReplanKey
  <2>4. PhaseFits'
    BY <1>0, <1>1, <1>3, <2>2, <2>3 DEF PhaseFits
  <2>5. CurrentFits'
    BY <1>0, <1>3, <2>2 DEF CurrentFits, InCall
  <2>6. DoneFits'
    BY <1>0, <2>2, NotAsking DEF DoneFits, Undone, Rest, Quiet
  <2> QED BY <2>2, <2>4, <2>5, <2>6 DEF PlanAfter
<1>4. CASE /\ Pending = {} /\ UNCHANGED tasks
           /\ \E r \in Superseded : r = Max(Superseded) /\ Asked(ReplanKey(r))
  <2>1. PICK r \in Superseded : r = Newest /\ Asked(ReplanKey(r))
    BY <1>0, <1>4, MaxIsNewest DEF Superseded
  <2>2. PICK key : key = ReplanKey(r) /\ Asked(key)
    <3>1. \A k : k = ReplanKey(r) => Asked(k)
      BY <2>1 DEF Asked, Reserved, Is, IsKey
    <3> QED BY <3>1
  <2>3. key \in Replans(Newest) /\ key[1] = "planning" /\ key \notin FirstPlans
    BY <1>1, <2>1, <2>2, MadeKeys, ReplansDiffer DEF Replans
  <2>4. Current(key)
    BY <1>0, <1>2, <1>4, <2>3, StageKinds DEF Current
  <2> QED BY <1>0, <1>4, <2>2, <2>3, <2>4, PlanAsked DEF PlanAfter, Rest, Quiet, CallInv, TablesShape
<1> QED BY <1>0, <1>3, <1>4, DiscardEffect

LEMMA PlanAbandoned ==
  ASSUME PlanInv, Abandon
  PROVE  PlanAfter /\ TablesShape'
<1>0. /\ pc = "abandon" /\ UNCHANGED <<asked, ops>> /\ CallInv /\ Negotiation /\ tasks # <<>>
      /\ OpenKeys = {} /\ Approved = {} /\ (Active = {} => Live = {})
      /\ (Active # {} => Doomed(Newest) /\ Newest >= MaxRevisions /\ Newest \in Active /\ Active = {Newest})
  BY Negotiating DEF Abandon, PlanInv, PhaseFits
<1>1. Undone /\ Pending = Live /\ (Pending # {} => Min(Pending) \in Pending)
  BY <1>0, NotDone, PendingIsLive DEF Undone, Rest, Quiet
<1>2. CASE Pending # {} /\ CancelTask(Min(Pending)) /\ UNCHANGED <<status, revs, pc, call>>
  <2>0. Newest \in Active /\ Newest \in DOMAIN revs
    BY <1>0, <1>1, <1>2 DEF Active
  <2>1. Live \subseteq revs[Newest].tasks
    BY <2>0 DEF PlanInv, TablesFit, RevsFit, RevFits, Active
  <2>2. PICK t \in Pending : t = Min(Pending) /\ CancelTask(t) /\ t \in revs[Newest].tasks
    BY <1>1, <1>2, <2>1
  <2>3. /\ TablesFit' /\ TablesShape' /\ OpenKeys' = {} /\ Live' \subseteq Live /\ Active' = Active /\ Undone'
        /\ Approved' = {} /\ Newest' = Newest /\ tasks' # <<>> /\ Doomed(Newest)'
    BY <1>0, <1>1, <1>2, <2>0, <2>2, PlanCancels
  <2>4. PhaseFits'
    BY <1>0, <1>2, <2>0, <2>3 DEF PhaseFits
  <2>5. CurrentFits'
    BY <1>0, <1>2, <2>3 DEF CurrentFits, InCall
  <2>6. DoneFits'
    BY <1>0, <2>3, NotAsking DEF DoneFits, Undone, Rest, Quiet
  <2> QED BY <2>3, <2>4, <2>5, <2>6 DEF PlanAfter
<1>3. CASE /\ Pending = {} /\ Active # {} /\ UNCHANGED <<status, tasks, pc, call>>
           /\ revs' = Decided(Max(Active), "abandoned")
  <2>1. PICK r \in Active : r = Newest /\ Max(Active) = r
    BY <1>0, <1>3, MaxIsNewest DEF Active
  <2>2. /\ TablesFit' /\ TablesShape' /\ OpenKeys' = {} /\ Live' = {} /\ Active' = {} /\ Approved' = {}
    BY <1>0, <1>1, <1>3, <2>1, Redecided
  <2>3. PhaseFits'
    BY <1>0, <1>3, <2>2 DEF PhaseFits
  <2>4. CurrentFits'
    BY <1>0, <1>3, <2>2 DEF CurrentFits, InCall
  <2> QED BY <1>0, <1>3, <2>2, <2>3, <2>4, NotDone DEF PlanAfter, Rest, Quiet
<1>4. CASE UNCHANGED <<tasks, revs>> /\ Ends
  <2>1. TablesFit' /\ CurrentFits' /\ OpenKeys' = {} /\ pc' = "idle"
    BY <1>0, <1>4, PlanStays DEF Ends, InCall
  <2>2. PhaseFits'
    BY <1>0, <1>4, <2>1, SameTables DEF PhaseFits
  <2> QED BY <1>0, <1>4, <2>1, <2>2, NotDone DEF PlanAfter, Rest, Quiet, CallInv, TablesShape
<1> QED BY <1>2, <1>3, <1>4 DEF Abandon, Decided

\* The tasks that are carried out are those of the approved plan; the cancelled ones were
\* proposed by plans that were refused, and do not count.
LEMMA PlanExecuted ==
  ASSUME PlanInv, Execute
  PROVE  PlanAfter /\ TablesShape'
<1>0. /\ pc = "execute" /\ pc' = "idle" /\ UNCHANGED <<revs, asked, ops>> /\ CallInv /\ OpenKeys = {}
      /\ (Negotiation => Approved # {}) /\ TablesFit /\ tasks \in Seq(TaskStatus)
  BY DEF Execute, Ends, PlanInv, PhaseFits, CallInv, TablesShape, TaskStatus
<1>1. \A t \in Counted : tasks[t] # "canceled"
  <2>1. CASE Approved # {}
    <3>1. PICK r \in Approved : r = Newest /\ r \in DOMAIN revs /\ revs # <<>>
      BY <2>1, NewestPlan DEF Approved
    <3>2. Live = revs[r].tasks /\ DOMAIN revs \ {r} \subseteq {s \in DOMAIN revs : revs[s].status \in {"superseded", "abandoned"}}
          /\ revs[r].status = "approved"
      BY <1>0, <3>1 DEF TablesFit, RevsFit, RevFits, Approved
    <3>3. ASSUME NEW t \in DOMAIN tasks, tasks[t] = "canceled" PROVE t \in Discarded
      <4>1. t \notin Live
        BY <3>3 DEF Live
      <4>2. PICK s \in DOMAIN revs : t \in revs[s].tasks
        BY <1>0, <3>3, <4>1 DEF TablesFit, RevsFit
      <4> DEFINE dead == {q \in DOMAIN revs : revs[q].status \in {"superseded", "abandoned"}}
      <4>3. s \in dead /\ DOMAIN revs \ dead = {r}
        BY <3>1, <3>2, <4>1, <4>2
      <4>4. t \in UNION {revs[q].tasks : q \in dead}
        BY <4>2, <4>3
      <4>5. t \notin UNION {revs[q].tasks : q \in DOMAIN revs \ dead}
        BY <3>2, <4>1, <4>3
      <4> QED BY <4>4, <4>5 DEF Discarded
    <3> QED BY <3>3 DEF Counted
  <2>2. CASE Approved = {}
    <3>1. revs = <<>>
      BY <1>0, <2>2 DEF TablesFit, RevsFit
    <3>2. \A t \in DOMAIN tasks : t \in Live
      BY <1>0, <3>1 DEF TablesFit, RevsFit
    <3> QED BY <3>2 DEF Counted, Live
  <2> QED BY <2>1, <2>2
<1>2. /\ run' = "completed" /\ cycle' = "completed"
      /\ tasks' = [t \in DOMAIN tasks |-> IF tasks[t] = "pending" THEN "completed" ELSE tasks[t]]
  BY <1>1 DEF Execute, Settles
<1>3. /\ tasks' \in Seq(TaskStatus) /\ DOMAIN tasks' = DOMAIN tasks /\ (tasks' = <<>> => tasks = <<>>)
      /\ Canceled' = Canceled /\ Live' = Live
  BY <1>0, <1>2, TasksExecuted
<1>4. /\ OpenKeys' = {} /\ Active' = Active /\ Superseded' = Superseded /\ Approved' = Approved
      /\ Newest' = Newest
  BY <1>0 DEF OpenKeys, Active, Superseded, Approved, Newest
<1>5. ASSUME NEW k \in DOMAIN ops' PROVE KeyFits(k)'
  <2>1. KeyFits(k)
    BY <1>0, <1>5 DEF TablesFit, KeysFit
  <2>2. Is(<<"review", k[2]>>, "failed")' <=> Is(<<"review", k[2]>>, "failed")
    BY <1>0 DEF Is
  <2> QED BY <1>0, <1>3, <1>4, <2>1, <2>2 DEF KeyFits
<1>6. ASSUME NEW r \in DOMAIN revs PROVE RevFits(r)'
  <2>1. RevFits(r)
    BY <1>0, <1>6 DEF TablesFit, RevsFit
  <2>2. Doomed(r)' <=> Doomed(r)
    BY <1>0 DEF Doomed, Is
  <2> QED BY <1>0, <1>3, <1>4, <2>1, <2>2 DEF RevFits
<1>7. RevsFit'
  <2>1. \A s \in DOMAIN tasks' \ Live' : \E r \in DOMAIN revs' : s \in revs'[r].tasks
    BY <1>0, <1>3 DEF TablesFit, RevsFit
  <2> QED BY <1>0, <1>3, <1>4, <1>6, <2>1 DEF TablesFit, RevsFit
<1>8. ReviewsMatchLedger'
  <2>1. ReviewsMatchLedger
    BY <1>0 DEF TablesFit
  <2> QED BY <1>0, <2>1 DEF ReviewsMatchLedger
<1>9. PhaseFits' /\ CurrentFits'
  BY <1>0, <1>4 DEF PhaseFits, CurrentFits, InCall, Rest
<1>10. DoneFits'
  BY <1>0, <1>2, <1>4, NotAsking DEF DoneFits, Rest, Quiet
<1>11. TablesShape'
  BY <1>0, <1>3 DEF CallInv, TablesShape, TaskStatus
<1> QED BY <1>5, <1>7, <1>8, <1>9, <1>10, <1>11 DEF PlanAfter, TablesFit, KeysFit

-----------------------------------------------------------------------------
(* Rest, restarts and the world leave the plan as it is                    *)

LEMMA PlanKept ==
  ASSUME PlanInv, Quietly, DOMAIN ops' = DOMAIN ops, OpenKeys' = OpenKeys,
         UNCHANGED <<tasks, revs>>, DoneFits',
         \/ pc' \in Rest \cup {"resume"}
         \/ pc' = "add_work" /\ Unplanned
         \/ pc' \in Quiet /\ Unplanned /\ OpenKeys = {}
  PROVE  PlanAfter
<1>1. TablesFit'
  BY LedgerOnly
<1>2. CurrentFits'
  <2>1. \A k \in OpenKeys' : Current(k)'
    BY SameTables DEF PlanInv, CurrentFits
  <2> QED BY <2>1 DEF CurrentFits, InCall, Rest, Quiet
<1>3. Approved # {} => OpenKeys = {} /\ ~Unplanned
  BY DEF PlanInv, PhaseFits, Approved, Unplanned
<1>4. PhaseFits'
  BY <1>3, SameTables DEF PhaseFits, Rest, Quiet
<1> QED BY <1>1, <1>2, <1>4 DEF PlanAfter

\* Added work is asked for only where nothing was planned before.
LEMMA CurrentAddWork ==
  ASSUME PlanInv, NEW k, IsKey(k), Current(k), IsAddWork(k)
  PROVE  Unplanned
<1>1. k[1] \in Planning /\ (k = <<"planning_repair", 2>> \/ k[1] = "add_work")
  BY StageKinds DEF IsAddWork
<1>2. CASE k \in FirstPlans
  BY <1>2 DEF Current
<1>3. CASE k \notin FirstPlans
  <2>1. Newest \in Superseded /\ k \in Replans(Newest)
    BY <1>1, <1>3 DEF Current
  <2>2. Newest \in Nat /\ Newest # 0
    BY <2>1 DEF Superseded, Newest, PlanInv, CallInv, TablesShape
  <2>3. k[1] \in {"planning", "planning_repair"} /\ k # <<"planning_repair", 2>>
    BY <1>3, <2>1, <2>2 DEF Replans, ReplanKey, RepairKey, FirstPlans
  <2> QED BY <1>1, <2>3
<1> QED BY <1>2, <1>3

\* A restart goes on with added work only when it was never planned.
LEMMA AddedWorkIsFirst ==
  ASSUME PlanInv, NEW k \in OpenKeys, IsAddWork(k)
  PROVE  Unplanned
<1>1. Current(k) /\ IsKey(k)
  BY WhatIsOpen DEF PlanInv, CallInv, OpsShape, OpenKeys
<1> QED BY <1>1, CurrentAddWork

LEMMA PlanRests ==
  ASSUME PlanInv, \/ RaiseDecision \/ SettleContest \/ Crash \/ Restart
                  \/ Reclaim \/ UserResumes \/ UserAnswers
  PROVE  PlanAfter /\ UNCHANGED <<tasks, revs>>
<1>0. CallInv /\ DoneFits /\ PhaseFits /\ AskedFits
  BY DEF PlanInv, CallInv
<1>1. UNCHANGED ops => Quietly /\ DOMAIN ops' = DOMAIN ops /\ OpenKeys' = OpenKeys
  BY <1>0, QuietMoves, OpenAfter
<1>2. CASE RaiseDecision
  <2>1. pc = "raise" /\ pc' \in Quiet /\ UNCHANGED <<ops, tasks, revs>> /\ Unplanned /\ OpenKeys = {}
    BY <1>0, <1>2 DEF RaiseDecision, PhaseFits, Quiet
  <2>2. DoneFits'
    BY <2>1 DEF DoneFits, Unplanned
  <2> QED BY <1>1, <2>1, <2>2, PlanKept
<1>3. CASE SettleContest
  <2>1. pc = "settle" /\ pc' = "idle" /\ UNCHANGED <<ops, tasks, revs>> /\ Unplanned
    BY <1>0, <1>3 DEF SettleContest, Ends, PhaseFits
  <2>2. DoneFits'
    BY <2>1 DEF DoneFits, Unplanned
  <2> QED BY <1>1, <2>1, <2>2, PlanKept DEF Rest
<1>4. CASE Crash
  <2>1. pc' = "down" /\ UNCHANGED <<ops, tasks, revs, run, cycle, asked>>
    BY <1>4 DEF Crash, tables, status
  <2>2. DoneFits'
    BY <1>0, <1>1, <2>1 DEF DoneFits, Rest
  <2> QED BY <1>1, <2>1, <2>2, PlanKept DEF Rest
<1>5. CASE Restart
  <2>0. /\ pc = "down" /\ UNCHANGED <<tasks, revs>> /\ Quietly /\ DOMAIN ops' = DOMAIN ops
        /\ OpenKeys' = OpenKeys
    BY <1>0, <1>5, RestartEffect, QuietMoves, OpenAfter
  <2>1. CASE \E k \in OpenKeys : Continue(k) /\ UNCHANGED <<run, cycle, asked>>
    <3>1. PICK k \in OpenKeys : Continue(k) /\ UNCHANGED <<run, cycle, asked>>
      BY <2>1
    <3>2. pc' = "resume" \/ (pc' = "add_work" /\ Unplanned)
      BY <3>1, AddedWorkIsFirst DEF Continue
    <3>3. DoneFits'
      BY <1>0, <2>0, <3>1 DEF DoneFits
    <3> QED BY <2>0, <3>2, <3>3, PlanKept
  <2>2. CASE /\ pc' = "idle" /\ asked' = (IF asked = "collecting" THEN "published" ELSE asked)
             /\ \/ \E k \in OpenKeys : ops[k].st = "invoking"
                \/ asked = "collecting"
                \/ /\ cycle' = (IF cycle \in {"queued", "running"} THEN "interrupted" ELSE cycle)
                   /\ run' = (IF run \in {"planning", "running"} THEN "interrupted" ELSE run)
    <3>1. DoneFits'
      BY <1>0, <2>0, <2>2 DEF DoneFits, Rest
    <3> QED BY <2>0, <2>2, <3>1, PlanKept DEF Rest
  <2> QED BY <1>0, <1>5, <2>0, <2>1, <2>2, RestartEffect
<1>6. CASE Reclaim
  <2>1. PICK k \in OpenKeys :
          ops[k].st \in {"waiting", "ambiguous"} /\ Moved(k, "prepared") /\ Continue(k)
    BY <1>0, <1>6, ReclaimEffect
  <2>2. UNCHANGED <<tasks, revs, asked>> /\ k \in DOMAIN ops
    BY <1>6 DEF Reclaim, OpenKeys
  <2>3. Quietly /\ DOMAIN ops' = DOMAIN ops /\ OpenKeys' = OpenKeys
    BY <1>0, <2>1, <2>2, QuietMoves, OpenAfter DEF Transitions, OpenOp
  <2>4. DoneFits'
    BY <1>0, <2>2 DEF DoneFits
  <2>5. pc' = "resume" \/ (pc' = "add_work" /\ Unplanned)
    BY <2>1, AddedWorkIsFirst DEF Continue
  <2> QED BY <2>2, <2>3, <2>4, <2>5, PlanKept
<1>7. CASE UserResumes
  <2>1. cycle = "interrupted" /\ pc' = "resume" /\ UNCHANGED <<ops, tasks, revs, asked>>
    BY <1>7 DEF UserResumes, tables
  <2>2. DoneFits'
    BY <1>0, <2>1 DEF DoneFits
  <2> QED BY <1>1, <2>1, <2>2, PlanKept
<1>8. CASE UserAnswers
  <2>1. cycle = "waiting_for_user" /\ pc' = "resume" /\ UNCHANGED <<ops, tasks, revs>> /\ asked' = "answered"
    BY <1>8 DEF UserAnswers
  <2>2. DoneFits'
    BY <1>0, <2>1 DEF DoneFits
  <2> QED BY <1>1, <2>1, <2>2, PlanKept
<1> QED BY <1>2, <1>3, <1>4, <1>5, <1>6, <1>7, <1>8

-----------------------------------------------------------------------------
(* The invariant                                                           *)

LEMMA PlanInvInit == Init => PlanInv
<1> SUFFICES ASSUME Init PROVE PlanInv
  OBVIOUS
<1>0. /\ ops = <<>> /\ tasks = <<>> /\ revs = <<>> /\ asked = "no" /\ call = NoCall
      /\ pc \in {"resume", "add_work", "contest"}
  BY PlanConstants DEF Init, AllSources
<1>1. DOMAIN ops = {} /\ DOMAIN tasks = {} /\ DOMAIN revs = {} /\ Newest = 0
  BY <1>0, EmptySeq DEF Newest
<1>2. OpenKeys = {} /\ Active = {} /\ Approved = {} /\ Unplanned
  BY <1>0, <1>1 DEF OpenKeys, Active, Approved, Unplanned
<1>3. OpsShape /\ OneOpen
  BY <1>0, <1>1, <1>2 DEF OpsShape, OneOpen
<1>4. CallShape
  BY <1>0, StageKinds DEF CallShape, NoCall, Pcs, InCall
<1>5. CallFits /\ AskedFits /\ TurnFits
  BY <1>0, <1>1, <1>2 DEF CallFits, AskedFits, TurnFits, InCall, Quiet
<1>6. TablesShape
  BY <1>0, EmptySeq DEF TablesShape
<1>7. TablesFit
  <2>1. Newest <= MaxRevisions
    BY <1>1, PlanConstants
  <2> QED BY <1>0, <1>1, <2>1 DEF TablesFit, KeysFit, RevsFit, ReviewsMatchLedger
<1>8. CurrentFits /\ PhaseFits /\ DoneFits
  BY <1>0, <1>1, <1>2 DEF CurrentFits, PhaseFits, DoneFits, InCall
<1> QED BY <1>3, <1>4, <1>5, <1>6, <1>7, <1>8 DEF PlanInv, CallInv

LEMMA TurnAfter ==
  ASSUME PhaseFits', CurrentFits'
  PROVE  TurnFits'
<1>1. pc' = "discard" => Superseded' # {}
  BY DEF PhaseFits
<1>2. pc' \in {"review", "verdict"} => Active' # {}
  BY DEF PhaseFits
<1>3. pc' \in InCall /\ call'.key[1] \in Reviews => Active' # {}
  BY DEF CurrentFits, Current
<1> QED BY <1>1, <1>2, <1>3 DEF TurnFits

LEMMA PlanInvStep == PlanInv /\ [Next]_vars => PlanInv'
<1> SUFFICES ASSUME PlanInv, [Next]_vars PROVE PlanInv'
  OBVIOUS
<1>0. CallInv /\ TablesShape
  BY DEF PlanInv, CallInv
<1>1. ASSUME UNCHANGED <<tasks, revs>> PROVE TablesShape'
  BY <1>0, <1>1 DEF TablesShape
<1>2. ASSUME CallAfter, PlanAfter, TablesShape' PROVE PlanInv'
  <2>1. OpsShape' /\ OneOpen'
    BY <1>0, <1>2, LedgerShape DEF CallAfter
  <2>2. TurnFits'
    BY <1>2, TurnAfter DEF PlanAfter
  <2> QED BY <1>2, <2>1, <2>2 DEF PlanInv, CallInv, CallAfter, PlanAfter
<1>3. CASE AddWork \/ AdjudicateContest \/ Start \/ StartAgain \/ ResumeContest \/ Resume
  <2>1. UNCHANGED <<tasks, revs>>
    BY <1>3 DEF AddWork, AdjudicateContest, Start, StartAgain, ResumeContest, Resume, tables
  <2> QED BY <1>0, <1>1, <1>2, <1>3, <2>1, EntriesAfter, PlanEntries
<1>4. CASE \/ BeginAttempt \/ MarkFailed \/ Error \/ Park \/ Ambiguous
           \/ \E a \in Answers(call.key[1]) : Complete(a)
  <2>1. UNCHANGED <<tasks, revs>>
    BY <1>4 DEF BeginAttempt, MarkFailed, Error, Park, Ambiguous, Complete, tables
  <2> QED BY <1>0, <1>1, <1>2, <1>4, <2>1, CallsAfter, PlanCalls
<1>5. CASE Invalid
  <2>1. UNCHANGED <<tasks, revs>>
    BY <1>5 DEF Invalid, tables
  <2> QED BY <1>0, <1>1, <1>2, <1>5, <2>1, CallsAfter, PlanInvalid
<1>6. CASE ApplyPlan \/ ApplyContestVerdict \/ ApplyPlanReview
  BY <1>0, <1>2, <1>6, AppliesAfter, PlanApplies, PlanReviewed
<1>7. CASE ResumeReplan \/ ReplanAgain \/ ContinueRevision \/ AskReview
  <2>1. UNCHANGED <<tasks, revs>>
    BY <1>7 DEF ResumeReplan, ReplanAgain, ContinueRevision, AskReview, tables
  <2> QED BY <1>0, <1>1, <1>2, <1>7, <2>1, NegotiationAfter, PlanReplans
<1>8. CASE CreateRevision \/ Decide \/ Discard \/ Abandon \/ Execute
  BY <1>0, <1>2, <1>8, NegotiationAfter, PlanProposed, PlanDecided, PlanDiscarded, PlanAbandoned,
     PlanExecuted
<1>9. CASE RaiseDecision \/ SettleContest \/ Crash \/ Restart \/ Reclaim \/ UserResumes \/ UserAnswers
  BY <1>0, <1>1, <1>2, <1>9, RestAfter, PlanRests
<1>10. CASE UNCHANGED vars
  <2>1. UNCHANGED <<ops, tasks, revs, asked, pc, call, run, cycle>>
    BY <1>10 DEF vars
  <2>2. OpenKeys' = OpenKeys /\ TablesFit'
    BY <2>1, PlanStays
  <2>3. OpsShape' /\ OneOpen' /\ TablesShape'
    BY <1>0, <1>1, <2>1, LedgerShape DEF LedgerStep
  <2>4. CallShape' /\ CallFits' /\ AskedFits'
    BY <1>0, <2>1, <2>2 DEF CallInv, CallShape, CallFits, AskedFits, Is
  <2>5. CurrentFits'
    <3>1. \A k \in OpenKeys' : Current(k)'
      BY <2>1, <2>2, SameTables DEF PlanInv, CurrentFits
    <3>2. pc' \in InCall => Current(call.key)'
      BY <2>1, SameTables DEF PlanInv, CurrentFits, Current
    <3> QED BY <2>1, <3>1, <3>2 DEF PlanInv, CurrentFits, Is
  <2>6. PhaseFits'
    <3>1. PhaseFits /\ (Doomed(Newest)' <=> Doomed(Newest))
      BY <2>1 DEF PlanInv, Doomed, Newest, Is
    <3> QED BY <2>1, <2>2, <3>1, SameTables DEF PhaseFits
  <2>7. DoneFits'
    BY <2>1, <2>2 DEF PlanInv, DoneFits
  <2>8. TurnFits'
    BY <2>5, <2>6, TurnAfter
  <2> QED BY <2>2, <2>3, <2>4, <2>5, <2>6, <2>7, <2>8 DEF PlanInv, CallInv
<1> QED BY <1>3, <1>4, <1>5, <1>6, <1>7, <1>8, <1>9, <1>10 DEF Next, Step, World

LEMMA PlanInvImplies == PlanInv => PlanIsApproved
<1> SUFFICES ASSUME PlanInv PROVE PlanIsApproved
  OBVIOUS
<1>1. ReviewsMatchLedger
  BY DEF PlanInv, TablesFit
<1>2. RefusedPlansDoNotCount
  BY DEF PlanInv, DoneFits, RefusedPlansDoNotCount
<1>3. ApprovedBeforeExecution
  <2> SUFFICES ASSUME Negotiation, pc = "execute"
               PROVE  \E r \in Approved : /\ revs[r].tasks = Pending
                                          /\ \A i \in Approvers : revs[r].reviews[i] = "approve"
    BY DEF ApprovedBeforeExecution
  <2>1. PICK r \in Approved : TRUE
    BY DEF PlanInv, PhaseFits
  <2>2. revs[r].tasks = Live /\ \A i \in Approvers : revs[r].reviews[i] = "approve"
    BY <2>1 DEF PlanInv, TablesFit, RevsFit, RevFits, Approved
  <2>3. \A t \in DOMAIN tasks : tasks[t] # "completed"
    BY DEF PlanInv, DoneFits, Rest
  <2>4. Pending = Live
    BY <2>3, PendingIsLive
  <2> QED BY <2>1, <2>2, <2>4
<1>4. Len(revs) <= MaxRevisions
  BY DEF PlanInv, TablesFit, RevsFit, Newest
<1>5. Cardinality(Active) <= 1
  <2>1. CASE Active = {}
    <3>1. Cardinality(Active) = 0
      BY <2>1, FS_EmptySet
    <3> QED BY <3>1
  <2>2. CASE Active # {}
    <3>1. revs # <<>>
      BY <2>2 DEF Active
    <3>2. Active = {Newest}
      BY <2>2, <3>1, NewestPlan
    <3>3. Cardinality(Active) = 1
      BY <3>2, FS_Singleton
    <3> QED BY <3>3
  <2> QED BY <2>1, <2>2
<1>6. ASSUME NEW k \in DOMAIN ops, ReplanSource(k) # 0
      PROVE  ReplanSource(k) \in Superseded /\ ReplanSource(k) < MaxRevisions
  <2>1. k[1] \in Planning
    BY <1>6 DEF ReplanSource
  <2>2. k \notin FirstPlans
    BY <1>6, FirstPlansAre
  <2>3. PICK r \in Superseded : k \in Replans(r)
    BY <2>1, <2>2 DEF PlanInv, TablesFit, KeysFit, KeyFits
  <2>4. r \in Nat /\ r # 0
    BY <2>3 DEF Superseded, PlanInv, CallInv, TablesShape
  <2>5. ReplanSource(k) = r
    BY <2>3, <2>4, ReplansDiffer
  <2>6. r < MaxRevisions
    BY <2>3 DEF PlanInv, TablesFit, RevsFit, RevFits, Superseded
  <2> QED BY <2>3, <2>5, <2>6
<1> QED BY <1>1, <1>2, <1>3, <1>4, <1>5, <1>6 DEF PlanIsApproved, BudgetHolds

\* Whatever crashes, waits, repairs and replans there are, for every number of owners,
\* tasks and revisions: a plan under negotiation is executed only when every owner approved
\* it, and what is executed is what they approved; each review is the one answer its
\* operation holds; the budget of revisions holds, with at most one replan of a refused
\* plan; and the tasks of a refused plan do not fail the cycle that carries out another
\* (_negotiate_plan, create_plan_revision, apply_plan_review, _live_plan_tasks).
THEOREM PlansAreApproved == Spec => []PlanIsApproved
<1>1. Init => PlanInv
  BY PlanInvInit
<1>2. PlanInv /\ [Next]_vars => PlanInv'
  BY PlanInvStep
<1>3. PlanInv => PlanIsApproved
  BY PlanInvImplies
<1> QED BY <1>1, <1>2, <1>3, PTL DEF Spec

-----------------------------------------------------------------------------
(* What a cycle waits for                                                  *)

Added == {"add_work", "add_work_again"}

\* The status of the cycle tells what its open call waits for.
OpenSays ==
  \A k \in OpenKeys :
    /\ ops[k].st = "waiting" <=> cycle = "waiting_for_provider"
    /\ ops[k].st = "ambiguous" <=> cycle = "interrupted"
    /\ cycle # "waiting_for_user"
    /\ IsAddWork(k) /\ ops[k].st \notin {"waiting", "ambiguous"} => run = "draft" /\ cycle = "queued"

\* What the cycle waits for is there; it is at work as long as its coroutine is.
CycleSays ==
  /\ cycle \in {"queued", "running"} \cup Parked
  /\ cycle = "waiting_for_provider" => OpenKeys # {}
  /\ cycle = "waiting_for_user" => asked = "published"
  /\ pc = "idle" /\ cycle \in {"queued", "running"} => entry = "add_work_again" /\ OpenKeys = {}
  /\ pc \notin Rest \cup {"settle", "resume", "start"} => cycle \in {"queued", "running"}
  /\ pc = "settle" => cycle \in {"running", "waiting_for_user"}
  /\ pc \in InCall /\ call.key[1] \in Contests => cycle = "running"

\* Added work is a draft until its tasks are there, and only its own calls are made for it.
EntryFits ==
  /\ entry \in Added /\ pc \notin Rest =>
       /\ run = "draft" /\ cycle = "queued" /\ pc \in InCall \cup {"add_work", "error"}
       /\ pc \in InCall => IsAddWork(call.key)
       /\ entry = "add_work_again" /\ pc = "error" => OpenKeys = {}
  /\ pc = "add_work" => entry \in Added /\ \A k \in OpenKeys : IsAddWork(k)
  /\ pc \in {"resume", "start"} => \A k \in OpenKeys : ~IsAddWork(k)
  /\ pc \in InCall /\ IsAddWork(call.key) => entry \in Added

RestFits == request = "dispatching" => OpenSays /\ CycleSays /\ EntryFits

\* What the plan says of added work, of objections and of what is open.
AddWorkFits ==
  /\ \A k \in OpenKeys : IsAddWork(k) => Unplanned
  /\ pc \in InCall /\ (IsAddWork(call.key) \/ call.key[1] \in Contests) => Unplanned
  /\ pc \notin Rest \cup {"error"} => \A k \in OpenKeys : ops[k].st \notin {"waiting", "ambiguous"}
  /\ pc \in InCall => OpenKeys \subseteq {call.key}
  /\ asked \in {"collecting", "published"} => OpenKeys = {} /\ pc \in Quiet \cup Rest
  /\ pc \in {"negotiate", "review", "verdict", "discard", "abandon", "execute"} =>
       \A k \in OpenKeys : ~IsAddWork(k)

LEMMA AddWorkIsFirst == PlanInv => AddWorkFits
<1> SUFFICES ASSUME PlanInv PROVE AddWorkFits
  OBVIOUS
<1>1. \A k \in OpenKeys : IsAddWork(k) => Unplanned
  BY AddedWorkIsFirst
<1>2. ASSUME pc \in InCall, IsAddWork(call.key) \/ call.key[1] \in Contests PROVE Unplanned
  <2>1. PICK k : k = call.key
    OBVIOUS
  <2>2. Current(k) /\ IsKey(k)
    BY <1>2, <2>1, InCallIs DEF Current
  <2> QED BY <1>2, <2>1, <2>2, CurrentAddWork DEF Current
<1>3. ASSUME pc \notin Rest \cup {"error"}
      PROVE  \A k \in OpenKeys : ops[k].st \notin {"waiting", "ambiguous"}
  <2>1. CASE pc = "invoking"
    BY <2>1 DEF PlanInv, CallInv, CallFits, InCall, Is
  <2>2. CASE pc # "invoking"
    BY <1>3, <2>2 DEF PlanInv, CallInv, CallFits
  <2> QED BY <2>1, <2>2
<1>4. pc \in InCall => OpenKeys \subseteq {call.key}
  BY DEF PlanInv, CallInv, CallFits
<1>5. asked \in {"collecting", "published"} => OpenKeys = {} /\ pc \in Quiet \cup Rest
  BY DEF PlanInv, CallInv, AskedFits
<1>6. pc \in {"negotiate", "review", "verdict", "discard", "abandon", "execute"} =>
        \A k \in OpenKeys : ~IsAddWork(k)
  BY <1>1 DEF PlanInv, PhaseFits, Unplanned
<1> QED BY <1>1, <1>2, <1>3, <1>4, <1>5, <1>6 DEF AddWorkFits

\* Nothing takes a request back to the dispatcher.
LEMMA RequestStep == [Next]_vars => request' \in {request, "settled"}
BY DEF Next, Step, World, vars, tables, status, Settles, BothBecome,
       AddWork, AdjudicateContest, Start, StartAgain, ResumeContest, Resume, BeginAttempt,
       MarkFailed, Invalid, Error, Complete, ApplyPlan, ApplyContestVerdict, ApplyPlanReview,
       ResumeReplan, ReplanAgain, CreateRevision, ContinueRevision, AskReview, Decide, Discard,
       Abandon, Execute, RaiseDecision, SettleContest, Park, Ambiguous, Crash, Reclaim,
       UserResumes, UserAnswers, Restart

\* Steps of a coroutine that leave the statuses as they are, and a call that is only another
\* one of the same kind.
LEMMA WorkGoesOn ==
  ASSUME PlanInv, PlanInv', OpenSays, CycleSays, EntryFits, UNCHANGED <<run, cycle, entry, asked>>,
         pc \notin Rest \cup {"settle", "resume", "start"},
         pc' \notin Rest \cup {"settle", "resume", "start", "add_work"},
         pc' = "error" => UNCHANGED ops /\ pc # "error",
         \A k \in OpenKeys' : IsAddWork(k) => entry \in Added,
         entry \in Added => /\ pc' \in InCall \cup {"error"}
                            /\ pc' \in InCall => IsAddWork(call'.key)
                            /\ pc' = "error" /\ entry = "add_work_again" => OpenKeys' = {},
         pc' \in InCall /\ IsAddWork(call'.key) => entry \in Added,
         pc' \in InCall /\ call'.key[1] \in Contests => cycle = "running"
  PROVE  RestFits'
<1>1. cycle \in {"queued", "running"}
  BY DEF CycleSays
<1>2. \A k \in OpenKeys' : ops'[k].st \notin {"waiting", "ambiguous"}
  <2>1. CASE pc' = "error"
    BY <2>1, AddWorkIsFirst, OpenAfter DEF AddWorkFits, PlanInv
  <2>2. CASE pc' # "error"
    <3>1. /\ pc' = "invoking" => Is(call.key, "invoking")' /\ OpenKeys' \subseteq {call'.key}
          /\ pc' \notin Rest \cup {"invoking", "error"} =>
               \A k \in OpenKeys' : ops'[k].st \in {"prepared", "completed"}
      BY DEF PlanInv, CallInv, CallFits, InCall
    <3> QED BY <2>2, <3>1 DEF Is
  <2> QED BY <2>1, <2>2
<1>3. entry \in Added => run = "draft" /\ cycle = "queued"
  BY DEF EntryFits
<1>4. OpenSays'
  BY <1>1, <1>2, <1>3 DEF OpenSays
<1>5. CycleSays'
  BY <1>1 DEF CycleSays, Rest
<1>6. EntryFits'
  BY <1>3 DEF EntryFits
<1> QED BY <1>4, <1>5, <1>6 DEF RestFits

\* Steps that bring the cycle to work, or keep it there.
LEMMA RunsOn ==
  ASSUME PlanInv, PlanInv', cycle' = "running", entry' \notin Added,
         pc' \notin Rest \cup {"error", "add_work"} \/ (pc' = "error" /\ UNCHANGED ops /\ pc \notin Rest \cup {"error"}),
         \A k \in OpenKeys' : ~IsAddWork(k), pc' \in InCall => ~IsAddWork(call'.key)
  PROVE  RestFits'
<1>2. \A k \in OpenKeys' : ops'[k].st \notin {"waiting", "ambiguous"}
  <2>1. CASE pc' = "error"
    BY <2>1, AddWorkIsFirst, OpenAfter DEF AddWorkFits, PlanInv
  <2>2. CASE pc' # "error"
    <3>1. /\ pc' = "invoking" => Is(call.key, "invoking")' /\ OpenKeys' \subseteq {call'.key}
          /\ pc' \notin Rest \cup {"invoking", "error"} =>
               \A k \in OpenKeys' : ops'[k].st \in {"prepared", "completed"}
      BY DEF PlanInv, CallInv, CallFits, InCall
    <3> QED BY <2>2, <3>1 DEF Is
  <2> QED BY <2>1, <2>2
<1>4. OpenSays'
  BY <1>2 DEF OpenSays
<1>5. CycleSays'
  BY DEF CycleSays, Rest
<1>6. EntryFits'
  BY DEF EntryFits
<1> QED BY <1>4, <1>5, <1>6 DEF RestFits

\* Only added work is repaired as added work.
LEMMA RepairOfAddWork ==
  ASSUME PlanInv, pc = "invalid", call.key[1] \notin Repairs
  PROVE  /\ IsAddWork(RepairKey(call.key)) <=> IsAddWork(call.key)
         /\ RepairKey(call.key)[1] \in Contests => call.key[1] \in Contests
<1>0. IsKey(call.key) /\ Current(call.key)
  BY InCallIs DEF InCall
<1>1. RepairKey(call.key)[1] \in Contests => call.key[1] \in Contests
  BY <1>0, StageKinds DEF IsKey, Stages, RepairKey, Repairs
<1>2. ASSUME IsAddWork(call.key) PROVE IsAddWork(RepairKey(call.key))
  BY <1>2 DEF IsAddWork, RepairKey, Repairs
<1>3. ASSUME IsAddWork(RepairKey(call.key)), ~IsAddWork(call.key) PROVE FALSE
  <2>1. call.key = <<"planning", 1>>
    BY <1>0, <1>3, StageKinds DEF IsAddWork, RepairKey, IsKey, Stages, Repairs
  <2>2. call.key \notin FirstPlans /\ call.key[1] \in Planning
    BY <2>1 DEF FirstPlans, Planning
  <2>3. Newest \in Superseded /\ call.key \in Replans(Newest)
    BY <1>0, <2>2 DEF Current
  <2>4. Newest \in Nat /\ Newest # 0
    BY <2>3 DEF Superseded, Newest, PlanInv, CallInv, TablesShape
  <2> QED BY <2>1, <2>3, <2>4 DEF Replans, ReplanKey, RepairKey
<1> QED BY <1>1, <1>2, <1>3

LEMMA RestEntries ==
  ASSUME PlanInv, PlanInv', OpenSays, CycleSays, EntryFits,
         AddWork \/ AdjudicateContest \/ Start \/ StartAgain \/ ResumeContest \/ Resume
  PROVE  RestFits'
<1>0. CallInv
  BY DEF PlanInv
<1>1. CASE AddWork
  <2>1. pc = "add_work" /\ UNCHANGED <<run, cycle, entry, asked>> /\ entry \in Added
        /\ \A k \in OpenKeys : IsAddWork(k)
    BY <1>1 DEF AddWork, tables, status, EntryFits
  <2>2. CASE OpenKeys = {}
    <3>1. Asked(<<"add_work", 0>>)
      BY <1>0, <1>1, <2>2, AddWorkEffect DEF Recovered
    <3>2. /\ call'.key = <<"add_work", 0>> /\ IsAddWork(<<"add_work", 0>>)
          /\ call'.key[1] \notin Contests /\ pc' \in {"call", "apply", "error"}
          /\ pc' = "error" => UNCHANGED ops /\ OpenKeys' = {}
          /\ \A k \in OpenKeys' : k = <<"add_work", 0>>
      BY <1>0, <2>2, <3>1, OpenAfter DEF Asked, IsAddWork, Contests
    <3> QED BY <2>1, <3>2, WorkGoesOn DEF InCall, Rest
  <2>3. CASE OpenKeys # {}
    <3>1. Recover(CHOOSE k \in OpenKeys : TRUE)
      <4>1. PICK open : open = CHOOSE k \in OpenKeys : TRUE
        OBVIOUS
      <4>2. open \in OpenKeys
        BY <2>3, <4>1
      <4>3. open[1] \in Planning /\ (open[1] = "add_work" \/ open = RepairKey(<<"add_work", 0>>))
        BY <2>1, <4>2 DEF IsAddWork, RepairKey, Planning
      <4> QED BY <1>1, <2>3, <4>1, <4>3 DEF AddWork, Planned
    <3>2. PICK k \in OpenKeys : Recover(k)
      BY <2>3, <3>1
    <3>3. call'.key = k /\ pc' \in {"call", "apply"} /\ UNCHANGED ops /\ IsAddWork(k)
      BY <2>1, <3>2 DEF Recover
    <3>4. OpenKeys' = OpenKeys /\ k[1] \notin Contests
      BY <1>0, <3>3, OpenAfter, StageKinds DEF IsAddWork
    <3> QED BY <2>1, <3>3, <3>4, WorkGoesOn DEF InCall, Rest
  <2> QED BY <2>2, <2>3
<1>2. CASE AdjudicateContest
  <2>1. Asked(<<"contest", 0>>) /\ OpenKeys = {} /\ pc = "contest" /\ cycle' = "running" /\ entry' = entry
    BY <1>0, <1>2, AdjudicateEffect DEF AdjudicateContest, BothBecome
  <2>2. /\ call'.key = <<"contest", 0>> /\ ~IsAddWork(<<"contest", 0>>) /\ pc' \in {"call", "apply", "error"}
        /\ pc' = "error" => UNCHANGED ops
        /\ \A k \in OpenKeys' : k = <<"contest", 0>>
    BY <1>0, <2>1, OpenAfter DEF Asked, IsAddWork
  <2>3. entry \notin Added
    BY <2>1 DEF EntryFits, Rest, InCall
  <2> QED BY <2>1, <2>2, <2>3, RunsOn DEF Rest
<1>3. CASE Start
  <2>1. pc = "start" /\ cycle' = "running" /\ entry' = entry /\ entry \notin Added
        /\ \A k \in OpenKeys : ~IsAddWork(k)
    BY <1>3 DEF Start, EntryFits, Rest, InCall
  <2>2. CASE OpenKeys = {} /\ Asked(<<"planning", 0>>)
    <3>1. /\ call'.key = <<"planning", 0>> /\ ~IsAddWork(<<"planning", 0>>)
          /\ pc' \in {"call", "apply", "error"} /\ (pc' = "error" => UNCHANGED ops)
          /\ \A k \in OpenKeys' : k = <<"planning", 0>>
      BY <1>0, <2>2, OpenAfter DEF Asked, IsAddWork
    <3> QED BY <2>1, <3>1, RunsOn DEF Rest
  <2>3. CASE \E k \in OpenKeys : Recovered(k)
    <3>1. PICK k \in OpenKeys : Recovered(k)
      BY <2>3
    <3>2. call'.key = k /\ pc' \in {"call", "apply"} /\ OpenKeys' = OpenKeys
      BY <1>0, <3>1, OpenAfter DEF Recovered
    <3> QED BY <2>1, <3>2, RunsOn DEF Rest
  <2>4. CASE Raise
    <3>1. OpenKeys' = OpenKeys /\ UNCHANGED ops /\ pc' = "error"
      BY <1>0, <2>4, OpenAfter DEF Raise
    <3> QED BY <2>1, <3>1, RunsOn DEF Rest, InCall
  <2> QED BY <1>0, <1>3, <2>2, <2>3, <2>4, StartEffect
<1>4. CASE StartAgain
  <2>1. pc = "resume" /\ pc' = "start" /\ UNCHANGED <<run, cycle, entry, asked, ops>> /\ OpenKeys' = OpenKeys
    BY <1>0, <1>4, OpenAfter DEF StartAgain, tables, status
  <2>2. OpenSays'
    BY <2>1 DEF OpenSays
  <2>3. CycleSays'
    BY <2>1 DEF CycleSays, Rest, InCall
  <2>4. EntryFits'
    BY <2>1 DEF EntryFits, Rest, InCall
  <2> QED BY <2>2, <2>3, <2>4 DEF RestFits
<1>5. CASE ResumeContest
  <2>1. PICK k \in OpenKeys : k[1] \in Contests /\ Recovered(k)
    BY <1>0, <1>5, ResumeContestEffect
  <2>2. call'.key = k /\ pc' \in {"call", "apply"} /\ OpenKeys' = {k} /\ ~IsAddWork(k)
    BY <1>0, <2>1, OpenAfter, StageKinds DEF Recovered, CallInv, OneOpen, IsAddWork
  <2>3. cycle' = "running" /\ entry' = entry /\ entry \notin Added
    BY <1>5 DEF ResumeContest, BothBecome, EntryFits, Rest, InCall
  <2> QED BY <2>2, <2>3, RunsOn DEF Rest
<1>6. CASE Resume
  <2>1. cycle' = "running" /\ entry' = entry /\ entry \notin Added /\ pc' \in {"negotiate", "execute"}
        /\ OpenKeys' = OpenKeys /\ \A k \in OpenKeys : ~IsAddWork(k)
    BY <1>0, <1>6, OpenAfter DEF Resume, BothBecome, EntryFits, Rest, InCall
  <2> QED BY <2>1, RunsOn DEF Rest, InCall
<1> QED BY <1>1, <1>2, <1>3, <1>4, <1>5, <1>6

\* where a call's run and cycle are when it is parked
LEMMA SourceOfCall ==
  \A k : /\ IsAddWork(k) => /\ "draft" \in ActiveSource(k).run /\ ActiveSource(k).cycle = "queued"
                            /\ RestoredRun(k) = "draft"
         /\ ~IsAddWork(k) => ActiveSource(k).cycle = "running"
<1> SUFFICES ASSUME NEW k
             PROVE  /\ IsAddWork(k) => /\ "draft" \in ActiveSource(k).run /\ ActiveSource(k).cycle = "queued"
                                       /\ RestoredRun(k) = "draft"
                    /\ ~IsAddWork(k) => ActiveSource(k).cycle = "running"
  OBVIOUS
<1>1. CASE IsAddWork(k)
  <2>1. k[1] \notin Contests
    BY <1>1, StageKinds DEF IsAddWork
  <2>2. ActiveSource(k) = [run |-> {"draft", "planning", "running"}, cycle |-> "queued"]
    BY <1>1, <2>1 DEF ActiveSource
  <2> QED BY <1>1, <2>2 DEF RestoredRun
<1>2. CASE ~IsAddWork(k)
  <2>1. \/ ActiveSource(k) = [run |-> {"running"}, cycle |-> "running"]
        \/ ActiveSource(k) = [run |-> {"planning"}, cycle |-> "running"]
    BY <1>2 DEF ActiveSource
  <2> QED BY <1>2, <2>1
<1> QED BY <1>1, <1>2

\* The coroutine stays with its call.
LEMMA SameCall ==
  ASSUME PlanInv, PlanInv', OpenSays, CycleSays, EntryFits, UNCHANGED <<run, cycle, entry, asked, call>>,
         pc \in {"call", "invoking"}, pc' \in {"invoking", "apply", "invalid"}
  PROVE  RestFits'
<1>0. OpenKeys' \subseteq {call'.key}
  BY DEF PlanInv, CallInv, CallFits, InCall
<1>1. OpenKeys' \subseteq {call.key} /\ (entry \in Added => IsAddWork(call.key))
      /\ (IsAddWork(call.key) => entry \in Added) /\ (call.key[1] \in Contests => cycle = "running")
  BY <1>0 DEF EntryFits, CycleSays, Rest, InCall
<1>2. /\ \A k \in OpenKeys' : IsAddWork(k) => entry \in Added
      /\ entry \in Added => IsAddWork(call'.key)
      /\ IsAddWork(call'.key) => entry \in Added
      /\ call'.key[1] \in Contests => cycle = "running"
  BY <1>1
<1> QED BY <1>2, WorkGoesOn DEF Rest, InCall

LEMMA RestCalls ==
  ASSUME PlanInv, PlanInv', OpenSays, CycleSays, EntryFits,
         \/ BeginAttempt \/ MarkFailed \/ Invalid \/ Error \/ Park \/ Ambiguous
         \/ \E a \in Answers(call.key[1]) : Complete(a)
  PROVE  RestFits'
<1>0. CallInv
  BY DEF PlanInv
<1>1. CASE BeginAttempt
  BY <1>1, SameCall DEF BeginAttempt, tables, status
<1>2. CASE MarkFailed
  BY <1>2, SameCall DEF MarkFailed, tables, status
<1>3. ASSUME NEW a \in Answers(call.key[1]), Complete(a) PROVE RestFits'
  BY <1>3, SameCall DEF Complete, tables, status
<1>4. CASE Invalid
  <2>0. /\ pc = "invalid" /\ UNCHANGED <<run, cycle, entry, asked>> /\ OpenKeys = {}
        /\ (entry \in Added => IsAddWork(call.key)) /\ (IsAddWork(call.key) => entry \in Added)
        /\ (call.key[1] \in Contests => cycle = "running")
    BY <1>0, <1>4, InvalidEffect DEF Invalid, tables, status, EntryFits, CycleSays, Rest, InCall
  <2>1. CASE call.key[1] \notin Repairs /\ Asked(RepairKey(call.key))
    <3>1. PICK key : key = RepairKey(call.key)
      OBVIOUS
    <3>2. Asked(key)
      BY <2>1, <3>1 DEF Asked
    <3>3. /\ call'.key = key /\ pc' \in {"call", "apply", "error"} /\ (pc' = "error" => UNCHANGED ops)
          /\ OpenKeys' \subseteq {key} /\ (pc' = "error" => OpenKeys' = {})
      BY <1>0, <2>0, <3>2, OpenAfter DEF Asked
    <3>4. /\ IsAddWork(key) <=> IsAddWork(call.key)
          /\ key[1] \in Contests => call.key[1] \in Contests
      BY <2>0, <2>1, <3>1, RepairOfAddWork DEF IsAddWork
    <3>5. /\ \A k \in OpenKeys' : IsAddWork(k) => entry \in Added
          /\ entry \in Added => IsAddWork(call'.key)
          /\ IsAddWork(call'.key) => entry \in Added
          /\ call'.key[1] \in Contests => cycle = "running"
      BY <2>0, <3>3, <3>4
    <3> QED BY <2>0, <3>3, <3>5, WorkGoesOn DEF Rest, InCall
  <2>2. CASE /\ UNCHANGED <<ops, call>>
             /\ (call.key[1] \in Reviews /\ pc' = "verdict") \/ pc' = "error"
    <3>1. OpenKeys' = {} /\ (pc' = "verdict" => entry \notin Added)
      BY <1>0, <2>0, <2>2, OpenAfter, StageKinds DEF IsAddWork
    <3> QED BY <2>0, <2>2, <3>1, WorkGoesOn DEF Rest, InCall
  <2> QED BY <1>0, <1>4, <2>1, <2>2, InvalidEffect
<1>5. CASE Error
  <2>1. CASE entry = "add_work_again"
    <3>1. /\ pc = "error" /\ pc' = "idle" /\ UNCHANGED <<cycle, request, ops, asked, entry>>
          /\ cycle = "queued" /\ OpenKeys = {} /\ OpenKeys' = {}
      BY <1>0, <1>5, <2>1, OpenAfter DEF Error, Ends, EntryFits, Added, Rest
    <3> QED BY <2>1, <3>1 DEF RestFits, OpenSays, CycleSays, EntryFits, Rest, InCall
  <2>2. CASE entry # "add_work_again"
    BY <1>5, <2>2 DEF Error, Settles, RestFits
  <2> QED BY <2>1, <2>2
<1>6. CASE Park
  <2>0. /\ pc = "invoking" /\ UNCHANGED <<asked, entry>> /\ OpenKeys \subseteq {call.key}
        /\ Is(call.key, "invoking") /\ call.key \in OpenKeys
    BY <1>0, <1>6, AttemptEffect, AddWorkIsFirst DEF AddWorkFits, Park, InCall, Is, OpenKeys, OpenOp
  <2>1. CASE Moved(call.key, "waiting") /\ Ends /\ BothBecome("waiting_for_provider")
    <3>1. OpenKeys' = {call.key} /\ ops'[call.key].st = "waiting" /\ pc' = "idle"
      BY <1>0, <2>0, <2>1, OpenAfter DEF Moved, OpenOp, Is, Ends
    <3> QED BY <2>0, <2>1, <3>1 DEF BothBecome, RestFits, OpenSays, CycleSays, EntryFits, Rest, InCall, Parked
  <2>2. CASE Raise /\ UNCHANGED status
    <3>1. ~(run \in ActiveSource(call.key).run /\ cycle = ActiveSource(call.key).cycle)
      BY <1>6, <2>2 DEF Park, Raise, Ends
    <3>2. ~IsAddWork(call.key) \/ ~(run = "draft" /\ cycle = "queued")
      BY <3>1, SourceOfCall
    <3>3. entry \notin Added /\ ~IsAddWork(call.key)
      BY <2>0, <3>2 DEF EntryFits, InCall, Rest
    <3>4. OpenKeys' = OpenKeys /\ pc' = "error" /\ UNCHANGED ops
      BY <1>0, <2>2, OpenAfter DEF Raise
    <3> QED BY <2>0, <2>2, <3>3, <3>4, WorkGoesOn DEF status, Rest, InCall
  <2> QED BY <1>0, <1>6, <2>1, <2>2, AttemptEffect DEF Park, Raise, Ends
<1>7. CASE Ambiguous
  <2>0. /\ pc = "invoking" /\ UNCHANGED <<asked, entry>> /\ OpenKeys \subseteq {call.key} /\ Is(call.key, "invoking")
        /\ pc' = "idle" /\ BothBecome("interrupted") /\ Moved(call.key, "ambiguous")
    BY <1>0, <1>7, AttemptEffect, AddWorkIsFirst DEF AddWorkFits, Ambiguous, Ends, InCall
  <2>1. OpenKeys' \subseteq {call.key} /\ ops'[call.key].st = "ambiguous"
    BY <1>0, <2>0, OpenAfter DEF Moved, OpenOp, Is
  <2> QED BY <2>0, <2>1 DEF BothBecome, RestFits, OpenSays, CycleSays, EntryFits, Rest, InCall, Parked
<1> QED BY <1>1, <1>2, <1>3, <1>4, <1>5, <1>6, <1>7

LEMMA RestApplies ==
  ASSUME PlanInv, PlanInv', OpenSays, CycleSays, EntryFits,
         ApplyPlan \/ ApplyContestVerdict \/ ApplyPlanReview
  PROVE  RestFits'
<1>0. /\ pc = "apply" /\ UNCHANGED <<run, cycle, request, asked, call>> /\ OpenKeys' = {}
      /\ IsKey(call.key) /\ ops[call.key].answer \in Answers(call.key[1])
  BY AppliesAfter, ApplyEffect DEF PlanInv, ApplyPlan, ApplyContestVerdict, ApplyPlanReview, status
<1>1. /\ entry \in Added => IsAddWork(call.key) /\ call.key[1] \in Planning
      /\ IsAddWork(call.key) => entry \in Added
      /\ call.key[1] \in Contests => cycle = "running" /\ call.key[1] \notin Planning
      /\ call.key[1] \in Reviews => call.key[1] \notin Planning
      /\ cycle \in {"queued", "running"}
  BY <1>0, StageKinds DEF EntryFits, CycleSays, Rest, InCall, IsAddWork
<1>2. ASSUME pc' = "resume", entry' = "resume" PROVE RestFits'
  <2>1. OpenSays' /\ EntryFits'
    BY <1>0, <1>2 DEF OpenSays, EntryFits, Added, Rest, InCall
  <2>2. CycleSays'
    BY <1>0, <1>1, <1>2 DEF CycleSays, Rest, InCall
  <2> QED BY <2>1, <2>2 DEF RestFits
<1>3. ASSUME pc' \in {"negotiate", "execute", "raise", "verdict", "review"}, entry' = entry, entry \notin Added
      PROVE  RestFits'
  BY <1>0, <1>3, WorkGoesOn DEF Rest, InCall
<1>4. CASE ApplyPlan
  <2>1. CASE IsAddWork(call.key) /\ entry # "resume"
    <3>1. AfterPlan = "resume"
      BY <2>1 DEF AfterPlan
    <3> QED BY <1>2, <1>4, <3>1 DEF ApplyPlan
  <2>2. CASE ~(IsAddWork(call.key) /\ entry # "resume")
    <3>1. AfterPlan \in {"negotiate", "execute"} /\ entry \notin Added
      BY <1>1, <2>2 DEF AfterPlan, Added
    <3> QED BY <1>3, <1>4, <3>1 DEF ApplyPlan
  <2> QED BY <2>1, <2>2
<1>5. CASE ApplyContestVerdict
  <2>1. PICK kind : kind = ops[call.key].answer
    OBVIOUS
  <2>2. /\ kind \in {"amend", "reject", "ask_back"} /\ pc' = AfterVerdict(kind) /\ cycle = "running"
        /\ entry' = (IF kind = "amend" THEN "resume" ELSE entry) /\ entry \notin Added
    BY <1>0, <1>1, <1>5, <2>1, StageKinds DEF ApplyContestVerdict, Answers
  <2>3. CASE kind = "amend"
    BY <1>2, <2>2, <2>3 DEF AfterVerdict
  <2>4. CASE kind = "ask_back"
    BY <1>3, <2>2, <2>4 DEF AfterVerdict
  <2>5. CASE kind = "reject"
    <3>1. pc' = "settle" /\ entry' = entry
      BY <2>2, <2>5 DEF AfterVerdict
    <3> QED BY <1>0, <2>2, <3>1, RunsOn DEF Rest, InCall
  <2> QED BY <2>2, <2>3, <2>4, <2>5
<1>6. CASE ApplyPlanReview
  <2>1. pc' \in {"verdict", "review"} /\ entry' = entry /\ entry \notin Added
    BY <1>1, <1>6 DEF ApplyPlanReview
  <2> QED BY <1>3, <2>1
<1> QED BY <1>4, <1>5, <1>6

LEMMA CancelLeavesTasks ==
  ASSUME PlanInv, tasks # <<>>, CancelTask(Min(Pending))
  PROVE  tasks' # <<>>
<1>1. tasks \in Seq(TaskStatus)
  BY DEF PlanInv, CallInv, TablesShape, TaskStatus
<1>2. DOMAIN tasks' = DOMAIN tasks
  BY DEF CancelTask
<1>3. 1 \in DOMAIN tasks
  <2>1. Len(tasks) \in Nat /\ Len(tasks) # 0 /\ DOMAIN tasks = 1 .. Len(tasks)
    BY <1>1, EmptySeq, LenProperties
  <2> QED BY <2>1
<1> QED BY <1>2, <1>3

\* While a plan is negotiated, the cycle has tasks and its statuses stay.
LEMMA NegotiationMoves ==
  ASSUME PlanInv, \/ ResumeReplan \/ ReplanAgain \/ CreateRevision \/ ContinueRevision
                  \/ AskReview \/ Decide \/ Discard \/ Abandon
  PROVE  \/ request' = "settled"
         \/ /\ pc \in {"negotiate", "review", "verdict", "discard", "abandon"}
            /\ pc' \in {"review", "verdict", "discard", "abandon", "execute", "call", "apply", "error"}
            /\ pc' = "error" => UNCHANGED ops
            /\ UNCHANGED <<run, cycle, entry, asked>> /\ tasks' # <<>>
<1>0. pc \in {"negotiate", "review", "verdict", "discard", "abandon"} => CallInv /\ tasks # <<>>
  BY Negotiating
<1>1. \A k : Asked(k) => pc' \in {"call", "apply", "error"} /\ (pc' = "error" => UNCHANGED ops)
  BY DEF Asked
<1>2. CASE ResumeReplan
  <2>1. pc = "negotiate" /\ UNCHANGED <<run, cycle, entry, asked, tasks>>
    BY <1>2 DEF ResumeReplan, tables, status
  <2>2. PICK k \in OpenKeys : Asked(k) \/ Raise
    BY <1>0, <1>2, <2>1, ResumeReplanEffect
  <2> QED BY <1>0, <1>1, <2>1, <2>2 DEF Raise
<1>3. CASE ReplanAgain
  <2>1. pc = "negotiate" /\ UNCHANGED <<run, cycle, entry, asked, tasks>>
    BY <1>3 DEF ReplanAgain, tables, status
  <2>2. (\E k : Asked(k)) \/ (UNCHANGED ops /\ pc' \in {"abandon", "error"})
    BY <1>0, <1>3, <2>1, ReplanAgainEffect
  <2> QED BY <1>0, <1>1, <2>1, <2>2
<1>4. CASE CreateRevision
  BY <1>0, <1>4 DEF CreateRevision, status
<1>5. CASE ContinueRevision
  BY <1>0, <1>5 DEF ContinueRevision, tables, status
<1>6. CASE AskReview
  <2>1. pc = "review" /\ UNCHANGED <<run, cycle, entry, asked, tasks>>
    BY <1>6 DEF AskReview, tables, status
  <2>2. (\E k : Asked(k)) \/ (UNCHANGED ops /\ pc' = "verdict")
    BY <1>0, <1>6, <2>1, AskReviewEffect
  <2> QED BY <1>0, <1>1, <2>1, <2>2
<1>7. CASE Decide
  <2>1. PICK r : r = Max(Active)
    OBVIOUS
  <2>2. \/ pc' = "execute"
        \/ pc' = "abandon"
        \/ pc' = "discard"
    BY <1>7, <2>1 DEF Decide
  <2> QED BY <1>0, <1>7, <2>2 DEF Decide, status
<1>8. CASE Discard
  <2>1. pc = "discard" /\ UNCHANGED <<run, cycle, entry, asked>>
    BY <1>8 DEF Discard, status
  <2>2. CASE Pending # {} /\ CancelTask(Min(Pending)) /\ UNCHANGED pc
    BY <1>0, <2>1, <2>2, CancelLeavesTasks
  <2>3. CASE UNCHANGED tasks /\ \E k : Asked(k)
    BY <1>0, <1>1, <2>1, <2>3
  <2> QED BY <1>0, <1>8, <2>1, <2>2, <2>3, DiscardEffect
<1>9. CASE Abandon
  <2>1. pc = "abandon" /\ UNCHANGED <<ops, entry, asked>>
    BY <1>9 DEF Abandon
  <2>2. CASE Pending # {} /\ CancelTask(Min(Pending)) /\ UNCHANGED <<status, pc>>
    BY <1>0, <2>1, <2>2, CancelLeavesTasks DEF status
  <2>3. CASE UNCHANGED <<status, tasks, pc>>
    BY <1>0, <2>1, <2>3 DEF status
  <2>4. CASE Settles("completed_with_failures")
    BY <2>4 DEF Settles
  <2> QED BY <1>9, <2>2, <2>3, <2>4 DEF Abandon
<1> QED BY <1>2, <1>3, <1>4, <1>5, <1>6, <1>7, <1>8, <1>9

LEMMA RestNegotiates ==
  ASSUME PlanInv, PlanInv', OpenSays, CycleSays, EntryFits,
         \/ ResumeReplan \/ ReplanAgain \/ CreateRevision \/ ContinueRevision
         \/ AskReview \/ Decide \/ Discard \/ Abandon \/ Execute
  PROVE  RestFits'
<1>1. CASE request' = "settled"
  BY <1>1 DEF RestFits
<1>2. CASE Execute
  BY <1>1, <1>2 DEF Execute, Settles
<1>3. CASE /\ pc \in {"negotiate", "review", "verdict", "discard", "abandon"}
           /\ pc' \in {"review", "verdict", "discard", "abandon", "execute", "call", "apply", "error"}
           /\ pc' = "error" => UNCHANGED ops
           /\ UNCHANGED <<run, cycle, entry, asked>> /\ tasks' # <<>>
  <2>1. entry \notin Added
    BY <1>3 DEF EntryFits, Rest, InCall
  <2>2. /\ \A k \in OpenKeys' : ~IsAddWork(k)
        /\ pc' \in InCall => ~IsAddWork(call'.key) /\ call'.key[1] \notin Contests
    <3>1. AddWorkFits'
      BY AddWorkIsFirst, PTL
    <3> QED BY <1>3, <3>1 DEF AddWorkFits, Unplanned
  <2> QED BY <1>3, <2>1, <2>2, WorkGoesOn DEF Rest, InCall
<1> QED BY <1>1, <1>2, <1>3, NegotiationMoves

\* A call that is continued has the cycle at work.
LEMMA Continued ==
  ASSUME PlanInv', NEW k, OpenKeys' = {k}, Continue(k), ops'[k].st \notin {"waiting", "ambiguous"},
         cycle' \in {"queued", "running"}, IsAddWork(k) => run' = "draft" /\ cycle' = "queued"
  PROVE  RestFits'
<1>1. IF IsAddWork(k) THEN pc' = "add_work" /\ entry' = "add_work_again"
                      ELSE pc' = "resume" /\ entry' = "resume"
  BY DEF Continue
<1>2. OpenSays'
  BY DEF OpenSays
<1>3. CycleSays'
  BY <1>1 DEF CycleSays, Rest, InCall
<1>4. EntryFits'
  BY <1>1 DEF EntryFits, Added, Rest, InCall
<1> QED BY <1>2, <1>3, <1>4 DEF RestFits

\* The cycle goes on where nothing is open.
LEMMA ResumedByUser ==
  ASSUME OpenKeys' = {}, pc' = "resume", entry' = "resume", cycle' \in {"interrupted", "running"}
  PROVE  RestFits'
<1>1. OpenSays' /\ CycleSays'
  BY DEF OpenSays, CycleSays, Rest, InCall, Parked
<1>2. EntryFits'
  BY DEF EntryFits, Added, InCall
<1> QED BY <1>1, <1>2 DEF RestFits

\* The process is down, or its coroutine is at its end with the cycle parked.
LEMMA Parks ==
  ASSUME OpenSays', cycle' \in {"queued", "running"} \cup Parked,
         cycle' = "waiting_for_provider" => OpenKeys' # {},
         cycle' = "waiting_for_user" => asked' = "published",
         pc' \in Rest, pc' = "idle" => cycle' \in Parked
  PROVE  RestFits'
BY DEF CycleSays, EntryFits, RestFits, Rest, InCall, Parked

LEMMA RestRestarts ==
  ASSUME PlanInv, PlanInv', OpenSays, CycleSays, EntryFits, Restart
  PROVE  RestFits'
<1>0. CallInv /\ pc = "down" /\ Reconciled /\ OpenKeys' = OpenKeys
  BY RestartEffect, OpenAfter DEF PlanInv
<1>1. CASE \E k \in OpenKeys : /\ ops[k].st \in {"prepared", "completed"} /\ Continue(k)
                               /\ UNCHANGED <<ops, run, cycle, asked>>
  <2>1. PICK k \in OpenKeys : /\ ops[k].st \in {"prepared", "completed"} /\ Continue(k)
                              /\ UNCHANGED <<ops, run, cycle, asked>>
    BY <1>1
  <2>2. OpenKeys = {k} /\ ops'[k].st \notin {"waiting", "ambiguous"}
    BY <1>0, <2>1 DEF CallInv, OneOpen
  <2>3. cycle \in {"queued", "running"} /\ (IsAddWork(k) => run = "draft" /\ cycle = "queued")
    BY <2>1 DEF OpenSays, CycleSays, Parked
  <2> QED BY <1>0, <2>1, <2>2, <2>3, Continued
<1>2. CASE /\ pc' = "idle" /\ asked' = (IF asked = "collecting" THEN "published" ELSE asked)
           /\ \A k \in OpenKeys : ops[k].st \notin {"prepared", "completed"}
           /\ \/ (\E k \in OpenKeys : ops[k].st = "invoking") /\ BothBecome("interrupted")
              \/ /\ \A k \in OpenKeys : ops[k].st # "invoking"
                 /\ \/ asked = "collecting" /\ BothBecome("waiting_for_user")
                    \/ /\ asked # "collecting"
                       /\ cycle' = (IF cycle \in {"queued", "running"} THEN "interrupted" ELSE cycle)
  <2>0. \A k \in OpenKeys : k \in DOMAIN ops /\ ops[k].st \in OpenOp
    BY DEF OpenKeys
  <2>1. CASE (\E k \in OpenKeys : ops[k].st = "invoking") /\ BothBecome("interrupted")
    <3>1. \A k \in OpenKeys' : ops'[k].st = "ambiguous"
      BY <1>0, <2>0, <2>1 DEF CallInv, OneOpen, Reconciled
    <3>2. cycle' = "interrupted"
      BY <2>1 DEF BothBecome
    <3>3. OpenSays'
      BY <3>1, <3>2 DEF OpenSays
    <3> QED BY <1>2, <3>2, <3>3, Parks DEF Rest, Parked
  <2>2. CASE asked = "collecting" /\ BothBecome("waiting_for_user")
    <3>1. OpenKeys' = {} /\ cycle' = "waiting_for_user" /\ asked' = "published"
      BY <1>0, <1>2, <2>2 DEF BothBecome, CallInv, AskedFits
    <3>2. OpenSays'
      BY <3>1 DEF OpenSays
    <3> QED BY <1>2, <3>1, <3>2, Parks DEF Rest, Parked
  <2>3. CASE /\ \A k \in OpenKeys : ops[k].st # "invoking"
             /\ asked # "collecting" /\ asked' = asked
             /\ cycle' = (IF cycle \in {"queued", "running"} THEN "interrupted" ELSE cycle)
    <3>1. \A k \in OpenKeys : ops[k].st \in {"waiting", "ambiguous"} /\ ops'[k] = ops[k]
      BY <1>0, <1>2, <2>0, <2>3 DEF OpenOp, Reconciled
    <3>2. \A k \in OpenKeys : cycle' = cycle
      BY <2>3, <3>1 DEF OpenSays
    <3>3. OpenSays'
      BY <1>0, <3>1, <3>2 DEF OpenSays
    <3>4. cycle' \in Parked /\ (cycle' \in {"waiting_for_provider", "waiting_for_user"} => cycle' = cycle)
      BY <2>3 DEF CycleSays, Parked
    <3> QED BY <1>0, <1>2, <2>3, <3>3, <3>4, Parks DEF Rest, CycleSays
  <2> QED BY <1>2, <2>1, <2>2, <2>3
<1> QED BY <1>0, <1>1, <1>2, RestartEffect

LEMMA RestRests ==
  ASSUME PlanInv, PlanInv', OpenSays, CycleSays, EntryFits, request = "dispatching",
         \/ RaiseDecision \/ SettleContest \/ Crash \/ Reclaim \/ UserResumes \/ UserAnswers
  PROVE  RestFits'
<1>0. CallInv /\ AskedFits /\ (UNCHANGED ops => OpenKeys' = OpenKeys)
  BY OpenAfter DEF PlanInv, CallInv
<1>1. CASE RaiseDecision
  <2>1. /\ pc = "raise" /\ OpenKeys = {} /\ OpenKeys' = {} /\ entry' = entry /\ entry \notin Added
        /\ cycle \in {"queued", "running"}
    BY <1>0, <1>1 DEF RaiseDecision, CallInv, CallFits, Quiet, EntryFits, CycleSays, Rest, InCall
  <2>2. \/ asked' = "collecting" /\ pc' = "raise" /\ cycle' = cycle
        \/ asked' = "published" /\ pc' = "settle" /\ cycle' = "waiting_for_user"
    BY <1>1, <2>1 DEF RaiseDecision, BothBecome, status
  <2>3. OpenSays' /\ EntryFits'
    BY <2>1, <2>2 DEF OpenSays, EntryFits, InCall, Rest
  <2>4. CycleSays'
    BY <2>1, <2>2 DEF CycleSays, Rest, InCall, Parked
  <2> QED BY <2>3, <2>4 DEF RestFits
<1>2. CASE SettleContest
  <2>1. CASE cycle = "running"
    BY <1>2, <2>1 DEF SettleContest, Settles, RestFits
  <2>2. CASE cycle # "running"
    <3>1. /\ cycle = "waiting_for_user" /\ cycle' = cycle /\ asked' = asked /\ asked = "published"
          /\ OpenKeys' = {} /\ pc' = "idle"
      BY <1>0, <1>2, <2>2 DEF SettleContest, Ends, status, CycleSays, AskedFits
    <3>2. OpenSays'
      BY <3>1 DEF OpenSays
    <3> QED BY <3>1, <3>2, Parks DEF Rest, Parked
  <2> QED BY <2>1, <2>2
<1>3. CASE Crash
  <2>1. pc' = "down" /\ UNCHANGED <<run, cycle, asked, ops>> /\ OpenKeys' = OpenKeys
    BY <1>0, <1>3 DEF Crash, tables, status
  <2>2. OpenSays'
    BY <2>1 DEF OpenSays
  <2> QED BY <2>1, <2>2, Parks DEF CycleSays, Rest
<1>4. CASE Reclaim
  <2>1. PICK k \in OpenKeys :
          /\ ops[k].st \in {"waiting", "ambiguous"} /\ Moved(k, "prepared") /\ Continue(k)
          /\ run' = RestoredRun(k) /\ cycle' = ActiveSource(k).cycle
    BY <1>0, <1>4, ReclaimEffect
  <2>2. k \in DOMAIN ops /\ OpenKeys = {k}
    BY <1>0, <2>1 DEF OpenKeys, CallInv, OneOpen
  <2>3. OpenKeys' = {k} /\ ops'[k].st = "prepared"
    BY <1>0, <2>1, <2>2, OpenAfter DEF OpenOp, Moved
  <2> QED BY <2>1, <2>3, SourceOfCall, Continued
<1>5. CASE UserResumes
  BY <1>0, <1>5, ResumedByUser DEF UserResumes, tables, status
<1>6. CASE UserAnswers
  <2>1. OpenKeys' = {} /\ cycle' = "running"
    BY <1>0, <1>6 DEF UserAnswers, AskedFits, BothBecome
  <2> QED BY <1>6, <2>1, ResumedByUser DEF UserAnswers
<1> QED BY <1>1, <1>2, <1>3, <1>4, <1>5, <1>6

RestInv == PlanInv /\ RestFits

LEMMA RestInvInit == Init => RestInv
<1> SUFFICES ASSUME Init PROVE RestFits
  BY PlanInvInit DEF RestInv
<1>1. ops = <<>> /\ run = "draft" /\ cycle = "queued" /\ pc \in {"resume", "add_work", "contest"}
      /\ entry = pc
  BY PlanConstants DEF Init, AllSources
<1>2. OpenKeys = {}
  BY <1>1 DEF OpenKeys
<1> QED BY <1>1, <1>2 DEF RestFits, OpenSays, CycleSays, EntryFits, Added, InCall, Rest

LEMMA RestInvStep == RestInv /\ [Next]_vars => RestInv'
<1> SUFFICES ASSUME PlanInv, RestFits, [Next]_vars PROVE RestInv'
  BY DEF RestInv
<1>0. PlanInv'
  BY PlanInvStep
<1>1. CASE request = "dispatching"
  <2>0. OpenSays /\ CycleSays /\ EntryFits
    BY <1>1 DEF RestFits
  <2>1. CASE AddWork \/ AdjudicateContest \/ Start \/ StartAgain \/ ResumeContest \/ Resume
    BY <1>0, <2>0, <2>1, RestEntries DEF RestInv
  <2>2. CASE \/ BeginAttempt \/ MarkFailed \/ Invalid \/ Error \/ Park \/ Ambiguous
             \/ \E a \in Answers(call.key[1]) : Complete(a)
    BY <1>0, <2>0, <2>2, RestCalls DEF RestInv
  <2>3. CASE ApplyPlan \/ ApplyContestVerdict \/ ApplyPlanReview
    BY <1>0, <2>0, <2>3, RestApplies DEF RestInv
  <2>4. CASE \/ ResumeReplan \/ ReplanAgain \/ CreateRevision \/ ContinueRevision
             \/ AskReview \/ Decide \/ Discard \/ Abandon \/ Execute
    BY <1>0, <2>0, <2>4, RestNegotiates DEF RestInv
  <2>5. CASE Restart
    BY <1>0, <2>0, <2>5, RestRestarts DEF RestInv
  <2>6. CASE RaiseDecision \/ SettleContest \/ Crash \/ Reclaim \/ UserResumes \/ UserAnswers
    BY <1>0, <1>1, <2>0, <2>6, RestRests DEF RestInv
  <2>7. CASE UNCHANGED vars
    <3>1. UNCHANGED <<run, cycle, request, ops, asked, pc, call, entry>> /\ OpenKeys' = OpenKeys
      BY <2>7, OpenAfter DEF vars, PlanInv
    <3> QED BY <1>0, <2>0, <3>1 DEF RestInv, RestFits, OpenSays, CycleSays, EntryFits
  <2> QED BY <2>1, <2>2, <2>3, <2>4, <2>5, <2>6, <2>7 DEF Next, Step, World
<1>2. CASE request # "dispatching"
  BY <1>0, <1>2, RequestStep DEF RestFits, RestInv
<1> QED BY <1>1, <1>2

LEMMA RestInvImplies == RestInv => RestIsActionable
<1> SUFFICES ASSUME RestInv, pc = "idle", request = "dispatching"
             PROVE  \/ cycle = "waiting_for_provider" /\ \E k \in OpenKeys : ops[k].st = "waiting"
                    \/ cycle = "interrupted" /\ \A k \in OpenKeys : ops[k].st = "ambiguous"
                    \/ cycle = "waiting_for_user" /\ asked = "published" /\ OpenKeys = {}
                    \/ entry = "add_work_again" /\ OpenKeys = {}
  BY DEF RestIsActionable
<1>1. OpenSays /\ CycleSays /\ AskedFits
  BY DEF RestInv, RestFits, PlanInv, CallInv
<1> QED BY <1>1 DEF OpenSays, CycleSays, AskedFits, Parked

\* Whenever no coroutine runs, whatever crashes, waits and restarts came before, a request
\* that is not settled is one that someone can move on: the provider poll finds a waiting
\* call, the user an interrupted cycle whose call, if any, is ambiguous, or a published
\* question (reconcile_startup, park_operation, claim_provider_recovery). Only an added-work
\* call that a restart continued and that failed leaves nothing behind.
THEOREM RestStaysActionable == Spec => []RestIsActionable
<1>1. Init => RestInv
  BY RestInvInit
<1>2. RestInv /\ [Next]_vars => RestInv'
  BY RestInvStep
<1>3. RestInv => RestIsActionable
  BY RestInvImplies
<1> QED BY <1>1, <1>2, <1>3, PTL DEF Spec
=============================================================================
