------------------------------ MODULE ModelCalls ------------------------------
(***************************************************************************)
(* What the ledger of model calls promises, whoever makes them: a call is  *)
(* identified by its key, a cycle has at most one call that is not done,   *)
(* an answer is stored once and never changes, it is applied once, and a   *)
(* dropped call stays dropped.  OperationLedger and TaskExecution are      *)
(* shown to implement it.                                                  *)
(***************************************************************************)
VARIABLE calls   \* the calls made: key -> its stage and, once known, its answer

Undone == {k \in DOMAIN calls : calls[k].at \in {"open", "answered"}}

Init == DOMAIN calls = {}

Reserve(k) ==
  /\ Undone = {} /\ k \notin DOMAIN calls
  /\ calls' = [j \in DOMAIN calls \cup {k} |->
                 IF j = k THEN [at |-> "open", answer |-> "none"] ELSE calls[j]]

Answer(k, a) ==
  /\ k \in DOMAIN calls /\ calls[k].at = "open"
  /\ calls' = [calls EXCEPT ![k] = [at |-> "answered", answer |-> a]]

Apply(k) ==
  /\ k \in DOMAIN calls /\ calls[k].at = "answered"
  /\ calls' = [calls EXCEPT ![k].at = "applied"]

Drop(k) ==
  /\ k \in Undone
  /\ calls' = [calls EXCEPT ![k].at = "dropped"]

Next == \E k \in DOMAIN calls' :
          Reserve(k) \/ Answer(k, calls'[k].answer) \/ Apply(k) \/ Drop(k)

Spec == Init /\ [][Next]_calls

=============================================================================
