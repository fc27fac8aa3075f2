SPECIFICATION FairSpec
CONSTANTS
  Conns <- MCConns
  NONE = NONE
  Listen = 3
  Fds <- MCFds
  TableSize = 2
  Initialised = 1
  Garbage <- MCGarbage
  Requests = 1
  Room = 1
  Response = 2
PROPERTY GivesUpWhenFull
CHECK_DEADLOCK FALSE
