SPECIFICATION FairSpec
CONSTANTS
  Jobs = {j1, j2}
  Need = 2
  Permits = 3
  Size = 2
  MaxTimes = 1
  MaxExtra = 1
  MaxErrors = 2
  MaxDrops = 1
CHECK_DEADLOCK FALSE
INVARIANTS TypeOK PermitsConserved ReadsObject
PROPERTIES AllFinish
