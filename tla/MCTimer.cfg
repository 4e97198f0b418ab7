SPECIFICATION FairSpec
CONSTANTS
  t1 = t1
  head = head
  t2 = t2
  a = a
  b = b
  Tasks <- MCTasks
  Timers <- MCTimers
  ListHead = head
  Delays = {1, 2, 4}
  MaxJiffies = 4
  MaxNest = 2
INVARIANTS
  NothingLeftDue
  NoTimerDropped
PROPERTIES
  TimersRun
