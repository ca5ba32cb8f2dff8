CHECK_DEADLOCK FALSE
SPECIFICATION Spec
CONSTANTS
  Kinds = {"oneshot"}
  Concurrents = {1, 2}
  Prefetch = 1
  Sizes = {1, 3, 4}
  Threshold = 1
  MaxParts = 3
  MaxTimes = 1
  MaxTemp = 2
  MaxDrops = 0
INVARIANT CompletedIsCopied
