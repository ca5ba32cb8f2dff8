SPECIFICATION FairSpec
CONSTANTS
  Kinds = {"multipart", "block", "oneshot"}
  Concurrents = {1, 2}
  Prefetch = 1
  Sizes = {1, 3, 4}
  Threshold = 1
  MaxParts = 3
  MaxTimes = 1
  MaxTemp = 2
  MaxDrops = 1
CHECK_DEADLOCK FALSE
INVARIANTS TypeOK EndIsTrue PartsExact
PROPERTIES CopyEnds
