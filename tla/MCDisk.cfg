CONSTANTS
  idle = idle
  init = init
  a = a
  kbd = kbd
  exits = exits
  NULL = NULL
  Tasks <- MCTasks
  Idle = idle
  InitTask = init
  HighPriority <- MCHighPriority
  Channels <- MCChannels
  ExitChannels <- MCExitChannels
  MaxVrun = 2
  MaxDebt = 0
  MaxCount = 3
SPECIFICATION FairSpec
INVARIANTS
  InterruptHasOwner
  SleepersOwnRequests
  SectorsInPlace
PROPERTIES
  SchedSpec
  TransfersEnd
  ImplementsBlockQueue
