------------------------------- MODULE Lifecycle -------------------------------
(***************************************************************************)
(* The rules of team_lifecycle.py: which status a task may take next, what *)
(* the tasks it depends on mean for it, and what the tasks of a cycle mean *)
(* for the cycle.  A state of tasks is a function from tasks to statuses,  *)
(* deps gives the tasks each depends on (acyclic, as plans are validated). *)
(***************************************************************************)

TerminalTask == {"completed", "skipped", "blocked", "failed", "canceled"}
TaskStatus == TerminalTask \cup {"pending", "in_progress", "waiting_for_user",
                                 "waiting_for_provider"}

TaskTransitions ==
  [s \in TaskStatus |->
     CASE s = "pending" -> {"in_progress", "skipped", "canceled"}
       [] s = "in_progress" -> {"waiting_for_user", "waiting_for_provider", "completed",
                                "blocked", "failed", "canceled"}
       [] s = "waiting_for_user" -> {"pending", "canceled"}
       [] s = "waiting_for_provider" -> {"in_progress", "failed", "canceled"}
       [] s \in TerminalTask -> {}]

CanTransition(s, t) == s = t \/ t \in TaskTransitions[s]

\* task_dependency_disposition
Prerequisites(statuses) ==
  CASE statuses \subseteq {"completed"} -> "ready"
    [] statuses \cap (TerminalTask \ {"completed"}) # {} -> "skip"
    [] OTHER -> "waiting"

\* _required_terminal_cause: why a task did not complete
Worst(causes) ==
  CASE "failed" \in causes -> "failed"
    [] "failed" \notin causes /\ "canceled" \in causes -> "canceled"
    [] causes \cap {"failed", "canceled"} = {} /\ "blocked" \in causes -> "blocked"
    [] OTHER -> "unresolved"

Causes(tasks, deps) ==
  LET cause[t \in DOMAIN tasks] ==
        IF tasks[t] # "skipped" THEN tasks[t] ELSE Worst({cause[d] : d \in deps[t]})
  IN cause

\* cycle_execution_disposition, without the waits
Disposition(tasks, required, deps) ==
  LET issues == {t \in DOMAIN tasks : tasks[t] # "completed"}
      causes == {Causes(tasks, deps)[t] : t \in issues \cap required}
  IN CASE DOMAIN tasks = {} -> "failed"
       [] \E t \in DOMAIN tasks : tasks[t] \notin TerminalTask -> "incomplete"
       [] OTHER ->
            CASE causes \cap {"failed", "canceled"} # {} -> "failed"
              [] causes \cap {"failed", "canceled"} = {} /\ "blocked" \in causes -> "blocked"
              [] causes # {} /\ causes \cap {"failed", "canceled", "blocked"} = {} -> "unresolved"
              [] causes = {} /\ issues # {} -> "completed_with_failures"
              [] issues = {} -> "completed"

\* _terminal_status of the effects, which has a rule of its own
EffectStatus(tasks, required) ==
  LET statuses == {tasks[t] : t \in DOMAIN tasks}
      needed == {tasks[t] : t \in required}
  IN IF ~(statuses \subseteq {"blocked", "completed", "failed", "canceled"}) THEN "conflict"
     ELSE IF "failed" \in needed THEN "failed"
     ELSE IF needed \cap {"blocked", "canceled"} # {} THEN "blocked"
     ELSE IF statuses \subseteq {"completed"} THEN "completed"
     ELSE "completed_with_failures"

=============================================================================
