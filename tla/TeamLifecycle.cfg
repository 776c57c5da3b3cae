SPECIFICATION FairSpec
CONSTANTS
  a = a
  b = b
  t = t
  Nobody = Nobody
  Names <- MCNames
  Tasks <- MCTasks
  MaxRetained = 1
  MaxPlans = 2
  MaxEvents = 3
INVARIANTS
  NoGhostOwner
  Conserved
  GateHeld
PROPERTIES
  StopEnds
  Reached
CHECK_DEADLOCK FALSE
