CONSTANTS
  site = site
  sub = sub
  group = group
  track = track
  r1 = r1
  None = None
  Sites <- MCNone
  Unknown <- MCNone
  Subscriptions <- MCSubscriptions
  NodeGroups <- MCNone
  Trackings <- MCTrackings
  Requests <- MCNone
  Concurrency = 1
  Interval = 1
  ReadErrors = TRUE
SPECIFICATION Spec
INVARIANT NobodyStuck
PROPERTIES RoundEnds NoTargetStarves
