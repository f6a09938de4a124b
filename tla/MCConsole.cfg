CONSTANTS
  MaxTokens = 2
  MaxMoves = 3
  Fields <- MCFields
  Inputs = {0, 7}
  None = None
SPECIFICATION Spec
INVARIANTS OneOfEach DefaultsAreTheUsers
PROPERTIES SessionEndsForCause AppSettles SharedHidden
CHECK_DEADLOCK FALSE
