SPECIFICATION Spec
CONSTANTS
  NULL = NULL
  Garbage = Garbage
  Processes = {p1, p2, p3}
  Queues = {q1, q2, q3}
  Size = 3
  CountModulus = 4
  MaxSignals = 1
  Contents = {NULL, Garbage}
SYMMETRY MCSymmetry
CONSTRAINT OnlyLate
INVARIANTS
  TypeOK
  CreateLock
  CountAgrees
  TableIntact
  RefusalJustified
PROPERTIES
  RegisterOnlyFree
  WaitJustified
