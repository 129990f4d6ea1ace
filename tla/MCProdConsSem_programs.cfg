CONSTANTS
  p1 = p1
  p2 = p2
  p3 = p3
  c1 = c1
  c2 = c2
  Producers = {p1, p2, p3}
  Consumers = {c1, c2}
  NBUFF = 2
  MaxItems = 4
  MaxErrors = 2
CHECK_DEADLOCK FALSE
SPECIFICATION FairSpec
INVARIANTS TypeOK InOrder AllMoved
PROPERTIES UnreadKept AllReturn
