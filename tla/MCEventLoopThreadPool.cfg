SPECIFICATION FairPoolSpec
CONSTANTS
  Callers <- MCCallers
  Tasks <- MCTasks
  Channels <- MCChannels
  Wakeup = "wakeup"
  Owner = "owner"
  NumThreads = 3
  This = 1
  MaxGiven = 2
INVARIANTS
  LifeTypeOK
  ThreadMembersOutliveUse
  PublishedLoopIsAlive
  LoopsInTurn
PROPERTIES
  StartLoopReturns
  DestructorReturns
CHECK_DEADLOCK FALSE
