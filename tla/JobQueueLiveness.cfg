SPECIFICATION Spec
CONSTANTS
  MaxJobs = 2
  Schedules = {s1}
  Broken = {}
  Guarded = {s1}
  MaxTime = 1
  MaxStops = 1
PROPERTIES JobsMoveOn
CHECK_DEADLOCK FALSE
