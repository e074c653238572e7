SPECIFICATION Spec
CONSTANTS
  MaxRequests = 3
  MaxCycles = 3
  MaxSeries = 2
  Targets = {1, 2}
  Policy = "auto"
  HasGoal = TRUE
  Workers = {w1, w2}
  Events = {"series", "continue", "resume", "reopen", "retry_task", "create_fails", "plan_fails", "freeze_fails", "shutdown", "answer", "decide"}
  MaxStops = 1
SYMMETRY WorkerSymmetry
PROPERTIES Implements
CHECK_DEADLOCK FALSE
