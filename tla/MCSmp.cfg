SPECIFICATION SmpFairSpec
CONSTANTS
  Last = 2
  Garbage <- MCGarbage
  Processors <- MCProcessors
  MaxLevel = 1
INVARIANTS
  OneStartsAtATime
  Separate
  IdleIsPreemptible
  Exclusion
  NoSelfDeadlock
  SystemCallUninterrupted
PROPERTIES
  LockIsTaken
