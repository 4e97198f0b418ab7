SPECIFICATION FairSpec
CONSTANTS
  Last = 3
  Garbage <- MCGarbage
PROPERTIES
  AllStart
CHECK_DEADLOCK FALSE
