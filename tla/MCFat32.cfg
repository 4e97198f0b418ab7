SPECIFICATION SerialSpec
CONSTANTS
  Clients = {t1, t2}
  t1 = t1
  t2 = t2
  Opens <- MCOpens
  Counts = {1, 3}
  MaxFiles = 2
  MaxOwned <- MCOwned
  MaxSize = 3
  BytesPerCluster = 2
  EntriesPerSector = 4
  SectorsPerFat = 2
  LastCluster = 6
  NumFATs = 2
  RootCluster = 2
  Fat <- MCFat
  Directory <- MCDirectory
INVARIANTS
  VolumeConsistent
  TransfersInPlace
  ListingExact
  DirectoryExact

  
