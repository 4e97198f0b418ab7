SPECIFICATION Spec
CONSTANTS
  Lines <- MCLines
  Noise <- MCNoise
  MaxLines = 3
  MaxNoise = 1
  MaxHeld = 2
  MaxAhead = 1
  BufSize = 8
  Pages = {3}
  Directories <- MCDirectories
  FileSize <- MCFileSize
INVARIANTS
  ArgsAsTyped
  DirectoryNamed
  HeapMapped
CHECK_DEADLOCK FALSE
