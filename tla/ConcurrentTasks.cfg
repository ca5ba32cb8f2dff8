SPECIFICATION FairSpec
CONSTANTS
  Concurrents = {1, 2}
  Prefetch = 1
  MaxInputs = 4
  MaxTemp = 2
  MaxDrops = 1
  MaxClears = 1
INVARIANTS TypeOK Conserved QueueSafe GuardedConcurrency
PROPERTIES ImplementsPipe AcceptedSettles
