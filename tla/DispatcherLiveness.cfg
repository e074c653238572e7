SPECIFICATION FairSpec
CONSTANTS
  MaxRequests = 2
  MaxCycles = 2
  MaxSeries = 0
  Targets = {1}
  Policy = "triggered"
  HasGoal = TRUE
  Workers = {w1, w2}
  Events = {"emergency", "trigger", "pause", "resume", "cancel", "wait", "ambiguous", "backoff", "crash", "shutdown"}
  MaxStops = 1
INVARIANTS NoCycleIsStranded
PROPERTIES WorkMovesOn CommandsEnd
CHECK_DEADLOCK FALSE
