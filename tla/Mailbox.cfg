SPECIFICATION Spec
CONSTANTS
  a = a
  b = b
  c = c
  m1 = m1
  m2 = m2
  Torn = Torn
  Procs = {a, b, c}
  Messages = {m1, m2}
  Predicates <- AllOrOne
  MaxRead = 1
  MaxRequeues = 1
  Mortal = {a}
INVARIANTS
  MessagesKept
  SnapshotFresh
SYMMETRY Symmetry
CHECK_DEADLOCK FALSE
