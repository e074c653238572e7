SPECIFICATION Spec
CONSTANTS
  NTasks = 2
  Cap = 2
  Rounds = 1
  ReCap = 2
  Required = {{2}}
  Helped = {{0}, {1}}
  MaxAsks = 1
  MaxMishaps = 1
INVARIANTS BudgetsAreCounted StatusIsEarned PlanIsKept
PROPERTIES StepsAreLegal ExecutionEnds
CHECK_DEADLOCK FALSE
