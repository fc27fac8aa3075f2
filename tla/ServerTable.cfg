SPECIFICATION Spec
CONSTANTS
  Conns <- MCConns
  NONE = NONE
  Listen = 3
  Fds <- MCManyFds
  TableSize = 2
  Initialised = 1
  Garbage <- MCGarbage
  Requests = 1
  Room = 1
  Response = 2
INVARIANT ExitsOnlyWhenFull
CHECK_DEADLOCK FALSE
