SPECIFICATION ReadingSpec
CONSTANTS
  Conns <- MCConns
  NONE = NONE
  Listen = 3
  Fds <- MCFds
  TableSize = 3
  Initialised = 1
  Garbage <- MCGarbage
  Requests = 1
  Room = 1
  Response = 2
INVARIANTS
  TypeOK
  TableMatchesSockets
  ReportStaysTrue
PROPERTIES
  RoundServesAll
  RequestReceived
CHECK_DEADLOCK FALSE
