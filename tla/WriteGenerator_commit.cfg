SPECIFICATION Spec
CONSTANTS
  None = None
  Chunks = {2}
  MinSizes = {None}
  MaxSizes = {None}
  MaxBytes = 4
  MaxLen = 2
  MaxFailures = 1
INVARIANTS CloseCommitsAll
CHECK_DEADLOCK FALSE
