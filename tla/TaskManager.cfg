SPECIFICATION TaskFairSpec
CONSTANTS
  a = a
  Sessions = {a}
  NoSession = NoSession
  Callers = {"stopAll", "waitAll"}
  Kinds = {"agent", "shell", "workflow"}
  MaxTasks = 2
  MaxRetained = 1
  MaxFailures = 1
  MaxCrashes = 1
INVARIANT
  ReportedOnce
PROPERTIES
  ReportedFinal
  NothingForgotten
  StopAllEnds
CHECK_DEADLOCK FALSE
