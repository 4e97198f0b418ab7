CONSTANTS
  idle = idle
  init = init
  a = a
  kbd = kbd
  exits = exits
  Tasks <- MCTasks
  Idle = idle
  InitTask = init
  HighPriority <- MCHighPriority
  Channels <- MCChannels
  ExitChannels <- MCExitChannels
  MaxVrun = 16
  MaxDebt = 3
SPECIFICATION Spec
INVARIANTS
  RunQueueExact
  CountIsQueueLength
  WaitersAsleep
  BoundedLead
PROPERTIES
  LeastVrunRuns
