SPECIFICATION FairSpec
CONSTANTS
  Callers <- MCCallers
  Tasks <- MCTasks
  Channels <- MCChannels
  Wakeup = "wakeup"
INVARIANTS
  TypeOK
  NoLostWakeup
  WakeupStaysArmed
PROPERTIES
  ImplementsTaskQueue
  TasksRun
  QuitLeaves
CHECK_DEADLOCK FALSE
