SPECIFICATION FairSpec
CONSTANTS
  Conns <- MCConns
  Wakeup = wakeup
  Fds <- MCFds
  WakeupFd = 0
  Nodes <- MCNodes
  Masks <- MCMasks
  Reports <- MCReports
  None = none
INVARIANTS
  TypeOK
  TableMatchesEpoll
  RegisteredIsAlive
  BatchStaysValid
PROPERTIES
  OverdueIsClosed
CHECK_DEADLOCK FALSE
