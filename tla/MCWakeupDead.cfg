SPECIFICATION LifeSpec
CONSTANTS
  Callers <- MCCallers
  Tasks <- MCTasks
  Channels <- MCChannels
  Wakeup = "wakeup"
  Owner = "owner"
INVARIANTS
  WakeupReachesLoop
CHECK_DEADLOCK FALSE
