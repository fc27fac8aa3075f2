SPECIFICATION FairSpec
CONSTANTS
  Lines <- MCLines
  Size <- MCSize
  Cap = 3
  Buffers <- MCBuffers
  NULL = NULL
  DropLimit = 2
  FlushEveryN = 2
INVARIANTS
  TypeOK
  OwnedOnce
  AssertionsHold
  FullBufferWakes
  FlushedWhenIdle
PROPERTIES
  ImplementsQueue
  LineReachesDisk
  StopReturnsEventually
  StartReturnsEventually
CHECK_DEADLOCK FALSE
