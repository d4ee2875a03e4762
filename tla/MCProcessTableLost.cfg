SPECIFICATION Spec
CONSTANTS
  NULL = NULL
  Garbage = Garbage
  Processes = {p1, p2}
  Queues = {q1, q2}
  Size = 2
  CountModulus = 8
  MaxSignals = 1
  Contents = {NULL}
SYMMETRY MCSymmetry
INVARIANTS
  ZeroWhenNoneLeft
