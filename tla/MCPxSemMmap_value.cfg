CONSTANTS
  t1 = t1
  t2 = t2
  t3 = t3
  Threads = {t1, t2, t3}
  Waiters = {t1, t2}
  Trying = {t2}
  Posters = {t3}
  Value = 1
  MaxPosts = 2
CHECK_DEADLOCK FALSE
SPECIFICATION FairCallsSpec
PROPERTY ImplementsSemaphore
