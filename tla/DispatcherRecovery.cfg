SPECIFICATION Spec
CONSTANTS
  MaxRequests = 3
  MaxCycles = 2
  MaxSeries = 1
  Targets = {2}
  Policy = "triggered"
  HasGoal = TRUE
  Workers = {w1, w2}
  Events = {"emergency", "trigger", "series", "continue", "pause", "resume", "cancel", "wait", "ambiguous", "plan_fails", "freeze_fails", "crash", "answer", "decide"}
  MaxStops = 2
SYMMETRY WorkerSymmetry
INVARIANTS ExecutionIsKnown EmergencyStopHolds NoLostWakeup QuestionIsAnswerable
PROPERTIES Implements
CHECK_DEADLOCK FALSE
