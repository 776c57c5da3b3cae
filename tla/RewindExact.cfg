CONSTANTS
  terminal = terminal
  source = source
  Processes = {terminal}
  Files = {source}
  None = None
  MaxSnapshots = 2
  MaxTaken = 4
  MaxWrites = 4
  MaxFaults = 0
  MaxCuts = 2
SPECIFICATION Spec
PROPERTIES
  RewindExact
CHECK_DEADLOCK FALSE
