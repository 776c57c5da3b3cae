CONSTANTS
  MaxCalls = 1
  MaxTurns = 1
  MaxIterations = 2
  MaxRecoveries = 1
  MaxRetries = 1
  MinPrefix = 2
  MaxEvents = 2
SPECIFICATION Spec
INVARIANT InterruptedMeansNoResult
CHECK_DEADLOCK FALSE
