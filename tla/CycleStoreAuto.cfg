\* An AUTO-policy run: three requests, so that a slot can fail, be retried and
\* be followed by the next one; two series, so that one can be restarted.
SPECIFICATION Spec
CONSTANTS
  MaxRequests = 3
  MaxCycles = 2
  MaxSeries = 2
  Targets = {1, 2}
  Policy = "auto"
  HasGoal = TRUE
INVARIANTS TypeOK SlotsAreExact SeriesIsActionable
PROPERTIES EndedSeriesStaysEnded
\* rows are finite: the bounded store fills up
CHECK_DEADLOCK FALSE
