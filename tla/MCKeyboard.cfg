CONSTANTS
  idle = idle
  init = init
  a = a
  b = b
  kbd = kbd
  exits = exits
  x = x
  y = y
  Tasks <- MCTasks
  Idle = idle
  InitTask = init
  HighPriority <- MCHighPriority
  Channels <- MCChannels
  ExitChannels <- MCExitChannels
  keyboard_wait_queue = kbd
  KB_BUF_SIZE = 2
  Codes <- MCCodes
  ReadSizes <- MCReadSizes
  MaxTyped = 4
  MaxUnread = 3
  MaxVrun = 2
  MaxDebt = 0
SPECIFICATION Spec
INVARIANTS
  NoLostWakeup
  FirstLapFifo
PROPERTIES
  SchedSpec
