CONSTANTS
  t1 = t1
  t2 = t2
  t3 = t3
  t4 = t4
  t5 = t5
  NoThread = NoThread
  Threads = {t1, t2, t3, t4, t5}
  Readers = {t1, t2, t3}
  Writers = {t3, t4, t5}
  Trying = {t1, t5}
  Spurious = {t2, t4}
SPECIFICATION FairSpec
INVARIANTS MutualExclusion CountersExact MutexNeverLeaked NoLostWakeup
PROPERTIES WritersFirst WritersServed
