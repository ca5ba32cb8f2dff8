SPECIFICATION FairSpec
CONSTANTS
  None = None
  Chunks = {None, 2, 3}
  MinSizes = {None, 2}
  MaxSizes = {None, 3}
  MaxBytes = 6
  MaxLen = 4
  MaxFailures = 2
INVARIANTS TypeOK InOrder CleanIsComplete ChunksSized
PROPERTIES CallsReturn
CHECK_DEADLOCK FALSE
