SPECIFICATION FairSpec
CONSTANTS
  Contenders = {1, 2, 3}
  Procs = {"p", "q"}
  ProcOf <- TwoCallsInP
  Waits = {1, 2, 3}
  Impatient = {1}
  Faulty = {3}
  Mortal = {"q"}
  Aging = {1, 3}
  StartTicks = FALSE
INVARIANTS
  MutualExclusion
  FirstComeFirstServed
PROPERTIES
  ImplementsMutex
  HeldLocksKept
  CallsReturn
CHECK_DEADLOCK FALSE
