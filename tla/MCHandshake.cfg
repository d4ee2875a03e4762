SPECIFICATION Spec
CONSTANTS
  NULL = NULL
  Clients = {c1, c2}
  Servers = {s1, s2}
  Nodes = {n1, n2}
  Ids = {0, 1, 2}
  Keys = {k1, k2}
  MaxRemote = 2
SYMMETRY MCSymmetry
CHECK_DEADLOCK FALSE
INVARIANTS
  TypeOK
  StandsWithPeer
  
  EntryStands
