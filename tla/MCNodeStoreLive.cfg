CONSTANTS
  Uids = {u1, u2}
  Workers = {w1}
  Others = {}
  Editors = {}
  ReadCommitted = FALSE
  MaxChecks = 2
  MaxIds = 3
  None = None
SPECIFICATION Spec
INVARIANT BatchFlows
PROPERTY BatchReturns
CHECK_DEADLOCK FALSE
