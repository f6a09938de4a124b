CONSTANTS
  Targets = {t1, t2}
  Callers = {c1, c2, c3}
  MaxPulls = 3
  None = None
SPECIFICATION Spec
INVARIANTS OnePullPerTarget NoStaleResult
PROPERTIES WaitersReturn KeepsPromise
CHECK_DEADLOCK FALSE
