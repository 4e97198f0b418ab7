SPECIFICATION Spec
CONSTANTS
  small = small
  large = large
  Small = {small}
  Large = {large}
  Pages = {1, 2, 3, 4, 5, 6}
  KernelPages = {1}
  HeadPage <- MCHeadPage
  HeadCount <- MCHeadCount
  MoreCount <- MCMoreCount
  DescCache = small
  MapCache <- MCMapCache
  CacheCache = small
  OwnMapCache = small
  OwnCount = 2
  MaxOwned = 6
INVARIANTS
  PagesExact
  ObjectsExact
  CountersExact
  OneSpareSlab
CHECK_DEADLOCK FALSE
