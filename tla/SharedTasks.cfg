SPECIFICATION Spec
CONSTANTS
  s1 = s1
  s2 = s2
  alice = alice
  bob = bob
  Stores = {s1, s2}
  Teammates = {alice, bob}
  Leader = Leader
  NoOwner = NoOwner
  Inputs <- MCInputs
  MaxId = 3
  MaxResets = 1
INVARIANTS
  BoardLoads
  StartedUnblocked
PROPERTIES
  ClaimsKept
  NoLostTask
SYMMETRY Symmetry
CHECK_DEADLOCK FALSE
