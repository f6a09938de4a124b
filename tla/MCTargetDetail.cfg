CONSTANTS
  Kinds = {"site", "node_group"}
  Opts = {"b", "pad", "bad"}
  Rejected = {"bad"}
  Stored <- MCStored
  Uris = {u1}
  Queries = {q1, q2}
  MaxLoads = 2
  MaxJobs = 2
  MaxMoves = 3
  None = None
SPECIFICATION Spec
INVARIANTS SavedWasStored UnsavedIsTyped SpinnerMeansJob
PROPERTIES EditsSettle PageCatchesUp
CHECK_DEADLOCK FALSE
