CONSTANTS
  site = site
  sub = sub
  group = group
  track = track
  r1 = r1
  None = None
  Sites <- MCSites
  Unknown <- MCNone
  Subscriptions <- MCSubscriptions
  NodeGroups <- MCNone
  Trackings <- MCNone
  Requests <- MCRequests
  Concurrency = 1
  Interval = 1
  ReadErrors = FALSE
SPECIFICATION Spec
INVARIANTS PlacesBalance AtMostOneLate
PROPERTIES Spaced
