SPECIFICATION Spec
CONSTANTS
  Sessions = {"s1"}
  NoSession = "none"
  MaxRequests = 2
  MaxShells = 2
  MaxRuns = 2
  Iterations = 2
  MaxLives = 2
  Mishaps = {"disk", "threads"}
INVARIANTS TurnsAreExact  
