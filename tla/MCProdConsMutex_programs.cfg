CONSTANTS
  p1 = p1
  p2 = p2
  p3 = p3
  c = c
  Producers = {p1, p2, p3}
  Consumer = c
  MaxItems = 4
CHECK_DEADLOCK FALSE
SPECIFICATION FairSpec
INVARIANTS TypeOK ReadsStored SleepsOnlyAtZero
PROPERTIES AllMoved
