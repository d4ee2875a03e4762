SPECIFICATION Spec
CONSTANTS
  NULL = NULL
  Root = p1
  Processes = {p1, p2, p3, p4}
  Messages = {m1, m2}
  Size = 3
  Pids = {1}
SYMMETRY MCSymmetry
CONSTRAINT MCNoReuseYet
CHECK_DEADLOCK FALSE
INVARIANTS
  TypeOK
  NothingLostToTheLiving
  OnePlace
PROPERTIES
  ImplementsActors
