SPECIFICATION Spec
CONSTANTS
  Sources = {"contest", "add_work", "resume"}
  Negotiation = TRUE
  NApprovers = 2
  PlanSize = 2
  MaxRevisions = 2
  MaxMishaps = 2
INVARIANTS PlanIsApproved RestIsActionable
PROPERTIES PlanningEnds
CHECK_DEADLOCK FALSE
