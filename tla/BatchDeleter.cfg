SPECIFICATION BDFairSpec
CONSTANTS
  Paths = {p1, p2, p3, p4}
  MaxBatchSize = 2
  MaxFailures = 2
INVARIANTS BDTypeOK NothingForgotten ClosedIsDeleted
PROPERTIES CloseReturns
