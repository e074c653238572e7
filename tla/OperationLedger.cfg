SPECIFICATION Spec
CONSTANTS
  Tasks = 3
  MaxAttempts = 2
  Batch = 1
  MaxMishaps = 3
  MaxEdits = 1
INVARIANTS PromptIsExact LedgerMatchesTables
PROPERTIES CallsAreOnce
CHECK_DEADLOCK FALSE
