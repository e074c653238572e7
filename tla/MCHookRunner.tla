---------------------------- MODULE MCHookRunner ----------------------------
(* One agent hook and one team hook for TLC. *)
EXTENDS HookRunner

\* two events of the agent's source, or one of the team's
SmallArrivals ==
  {[h \in Hooks |-> IF h \in AgentHooks THEN 2 ELSE 0],
   [h \in Hooks |-> IF h \in TeamHooks THEN 1 ELSE 0]}
=============================================================================
