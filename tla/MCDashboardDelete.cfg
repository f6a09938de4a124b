CONSTANTS
  Whats <- MCWhats
  Aliases <- MCAliases
  ConfigOf <- MCConfigOf
  Given <- MCGiven
  Files <- MCFiles
  Filters <- MCFilters
  Bad = Bad
  MaxIds = 2
  MaxLoads = 1
  MaxMoves = 3
  None = None
SPECIFICATION Spec
INVARIANT ResultsGoWithTarget
CHECK_DEADLOCK FALSE
