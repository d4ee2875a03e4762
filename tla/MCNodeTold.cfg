SPECIFICATION FairSpec
CONSTANTS
  NULL = NULL
  Root = 1
  Processes = {1, 2, 3}
  Messages = {1, 2}
  Size = 3
  Pids = {0, 3}
CONSTRAINTS MCInOrder MCBeyond
ACTION_CONSTRAINT MCFirstFree
CHECK_DEADLOCK FALSE
PROPERTIES
  SupervisorIsTold
