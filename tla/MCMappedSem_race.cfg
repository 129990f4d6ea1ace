CONSTANTS
  p1 = p1
  p2 = p2
  p3 = p3
  p4 = p4
  NoFile = NoFile
  Libs = {"mq", "sem"}
  Procs = {p1, p2, p3, p4}
  Creat = {p1, p2, p3}
  Excl = {p2, p3}
  Faulty = {p1}
  Mortal = {p3}
  Unlinkers = {p4}
  Inodes = {1, 2, 3}
  MAX_TRIES = 2
  Threads = {p1, p2, p3, p4}
  Waiters = {p1, p3, p4}
  Trying = {p2, p4}
  Posters = {p2, p4}
  Value = 1
  MaxPosts = 2
  Followed = 1
CHECK_DEADLOCK FALSE
SPECIFICATION FairMappedSpec
INVARIANTS TypeOK ReadyOrRemoved OneQueue ExclusiveCreates NoOverdraft AsleepAtZero
PROPERTIES FailRemovesOwn CallsReturn
