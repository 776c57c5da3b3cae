CONSTANTS
  terminal = terminal
  source = source
  Processes = {terminal}
  Files = {source}
  None = None
  MaxSnapshots = 2
  MaxTaken = 3
  MaxWrites = 4
  MaxFaults = 1
  MaxCuts = 1
SPECIFICATION Spec
INVARIANTS
  BackupsExact
  BranchExact
PROPERTIES
  RestoredExact
  TargetSurvives
CHECK_DEADLOCK FALSE
