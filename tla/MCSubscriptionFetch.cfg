CONSTANTS
  f1 = f1
  f2 = f2
  Fetches = {f1, f2}
  Configs <- MCConfigs
  Quick = {1}
  Hosts <- MCHosts
  None = None
SPECIFICATION Spec
INVARIANTS EndsNearDeadline AutoServes KnownProtocolFirst
CHECK_DEADLOCK FALSE
