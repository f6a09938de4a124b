CONSTANTS
  Nodes = {n1, n2}
  Workers = {w1, w2}
  Runner = runner
  Clients = {c1}
  BufCap = 1
  MaxPolls = 2
SPECIFICATION FairSpec
INVARIANTS CountsConsistent NoStreamForgotten NothingAfterDone PanicOnlyByDisconnect
PROPERTIES KeepsPromise JobEnds StreamEnds
CHECK_DEADLOCK FALSE
