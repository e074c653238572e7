\* A TRIGGERED-policy run without a goal text: triggered requests and a repeat
\* series compete for one FIFO.
SPECIFICATION Spec
CONSTANTS
  MaxRequests = 3
  MaxCycles = 2
  MaxSeries = 1
  Targets = {2}
  Policy = "triggered"
  HasGoal = FALSE
INVARIANTS OneDispatching NoOvertaking
PROPERTIES SettledWorkIsFinal
CHECK_DEADLOCK FALSE
