SPECIFICATION Spec
CONSTANTS
  NULL = NULL
  Local = local
  Connections = {c1, c2}
  Nodes = {r1}
  Size = 3
  MaxQueue = 1
  MaxUsers = 1
SYMMETRY MCSymmetry
CONSTRAINT OneRaceAtMost
CHECK_DEADLOCK FALSE
INVARIANTS
  TypeOK
  OneSender
  EntryNamesSender
  EntryHasConnection
  ShutdownJustified
