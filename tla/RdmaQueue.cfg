CONSTANTS
  NSlots = 2
  NPages = 3
  Scripts <- MCScripts
  MaxLost = 1
  MaxFaults = 1
  SqSlack = 0
  SqFloor = 0
  CqSlack = 0
SPECIFICATION FairSpec
INVARIANTS
  DispatchedWithOwnData
  WorkRequestsOwned
  ConformingHostFits
  QueuesSized
  SleepHasWakeSource
  ArenaFreedQuiet
PROPERTIES
  
  DisconnectEndsSteadyQueue
CHECK_DEADLOCK FALSE
