CONSTANTS
  mq_maxmsg = 3
  MaxSent = 5
CHECK_DEADLOCK FALSE
SPECIFICATION FairSpec
INVARIANTS NoneForgotten
PROPERTIES Drained
