SPECIFICATION FairSpec
CONSTANTS
  NULL = NULL
  Clients = {c1, c2}
  Servers = {s1}
  Nodes = {n1, n2}
  Ids = {0, 2}
  Keys = {k1, k2}
  MaxRemote = 2
CHECK_DEADLOCK FALSE
PROPERTIES
  EventuallyAgree
