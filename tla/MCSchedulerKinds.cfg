CONSTANTS
  site = site
  sub = sub
  group = group
  track = track
  r1 = r1
  None = None
  Sites <- MCSites
  Unknown <- MCSites
  Subscriptions <- MCNone
  NodeGroups <- MCNodeGroups
  Trackings <- MCTrackings
  Requests <- MCKindRequests
  Concurrency = 1
  Interval = 0
  ReadErrors = TRUE
SPECIFICATION Spec
INVARIANT AtMostOneLate

