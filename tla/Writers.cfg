SPECIFICATION FairSpec
CONSTANTS
  Kinds = {"multipart", "block", "position", "oneshot"}
  Concurrents = {1, 2}
  Prefetch = 1
  NoObject = NoObject
  Orderly = TRUE
  MaxWrites = 4
  MaxTemp = 1
  MaxDrops = 1
INVARIANTS TypeOK PublishedIsAcked PartsSound EndsSettled
PROPERTIES AbortIsFinal ImplementsAtomicObject CallReturns
