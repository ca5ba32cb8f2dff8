SPECIFICATION FairSpec
CONSTANTS
  Concurrents = {1, 2}
  Chunks = {0, 1, 2}
  Prefetch = 1
  Start = 1
  End = 6
  MaxErrors = 2
  MaxSeeks = 2
  MaxDrops = 1
CHECK_DEADLOCK FALSE
INVARIANTS TypeOK Accounted BoundedAhead
PROPERTIES ReachesEnd
