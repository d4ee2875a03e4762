SPECIFICATION FairSpec
CONSTANTS
  NULL = NULL
  Local = local
  Connections = {c1}
  Nodes = {r1}
  Size = 4
  MaxQueue = 1
  MaxUsers = 0
CHECK_DEADLOCK FALSE
INVARIANTS
  OneSender
PROPERTIES
  ClosedIsCleaned
  SenderComesBack
