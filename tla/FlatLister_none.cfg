SPECIFICATION Spec
CONSTANTS
  None = None
  Dirs <- MCDirs
  Files <- MCFiles
  Matches <- MCMatches
  Denied <- MCDenied
  MaxTimes = 1
  MaxErrors = 2
  MaxGone = 1
CHECK_DEADLOCK FALSE
INVARIANT NoneMeansListed
