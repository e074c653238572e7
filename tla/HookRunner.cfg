SPECIFICATION Spec
CONSTANTS
  AgentHooks = {"agent"}
  TeamHooks = {"team"}
  MaxEvents = 2
  Arrivals <- SmallArrivals
  MaxStops = 1
  Mishaps = {"user", "stop"}
INVARIANTS  EmergencyStopHolds OutcomeIsTrue
