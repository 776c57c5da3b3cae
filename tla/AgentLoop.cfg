CONSTANTS
  MaxCalls = 2
  MaxTurns = 1
  MaxIterations = 2
  MaxRecoveries = 1
  MaxRetries = 1
  MinPrefix = 2
  MaxEvents = 3
SPECIFICATION FairSpec
INVARIANTS
  AllAccountedFor
  LogStandsIn
  ResultsTrue
PROPERTIES
  NoStartAfterAbort
  AbortEnds
  TextGoesOn
CHECK_DEADLOCK FALSE
