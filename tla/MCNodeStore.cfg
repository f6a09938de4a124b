CONSTANTS
  Uids = {u1, u2}
  Workers = {w1}
  Others = {o1}
  Editors = {e1}
  ReadCommitted = TRUE
  MaxChecks = 1
  MaxIds = 3
  None = None
SPECIFICATION Spec
SYMMETRY Symmetry
INVARIANTS LatencyHasCheck RowsFollowSource CarriedOver
CHECK_DEADLOCK FALSE
