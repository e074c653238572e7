SPECIFICATION Spec
CONSTANTS
  MaxJobs = 2
  Schedules = {s1, s2}
  Broken = {s2}
  Guarded = {}
  MaxTime = 1
  MaxStops = 1
INVARIANTS TypeOK TablesMatchWorker RunsAtMostOnce JobsAreJustified EmergencyStopHolds
PROPERTIES SettledStaysSettled
CHECK_DEADLOCK FALSE
