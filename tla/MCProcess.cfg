CONSTANTS
  idle = idle
  init = init
  a = a
  b = b
  kbd = kbd
  NULL = NULL
  Tasks <- MCTasks
  Idle = idle
  InitTask = init
  HighPriority <- MCHighPriority
  Channels <- MCChannels
  DeviceChannels <- MCDevices
  Forkers <- MCShell
  MaxChildren = 1
  MaxPid = 2
  MmIds = {1, 2, 3}
  Pages = {1, 2, 3, 4}
  MaxBrk = 1
  MaxVrun = 2
  MaxDebt = 2
SPECIFICATION Spec
INVARIANTS
  ListExact
  ExitIsNoticed
  AddressSpacesApart
PROPERTIES
  SchedSpec
SYMMETRY MCSymmetry
