------------------------------ MODULE CallStatus ------------------------------
(***************************************************************************)
(* The statuses of a row of team_model_operations, and the stage of the    *)
(* call of ModelCalls that each stands for.                                *)
(***************************************************************************)

OpStatus == {"prepared", "invoking", "completed", "applied", "waiting", "ambiguous", "failed",
             "canceled"}

\* the statuses of an operation that keeps its cycle from making another call
OpenOp == {"prepared", "invoking", "completed", "waiting", "ambiguous"}

Stage(st) ==
  CASE st \in {"prepared", "invoking", "waiting", "ambiguous"} -> "open"
    [] st = "completed" -> "answered"
    [] st = "applied" -> "applied"
    [] st \in {"failed", "canceled"} -> "dropped"

\* The table with one more row: an insert.
Inserted(table, key, row) ==
  [k \in DOMAIN table \cup {key} |-> IF k = key THEN row ELSE table[k]]

=============================================================================
