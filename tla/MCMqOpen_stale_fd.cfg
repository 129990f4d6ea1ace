CONSTANTS
  p1 = p1
  p2 = p2
  p3 = p3
  p4 = p4
  NoFile = NoFile
  Libs = {"mq"}
  Procs = {p1, p2, p3}
  Creat = {p1, p2, p3}
  Excl = {}
  Faulty = {p1}
  Mortal = {}
  Unlinkers = {}
  Inodes = {1, 2}
  MAX_TRIES = 2
CHECK_DEADLOCK FALSE
SPECIFICATION Spec
INVARIANT OpenedIsReady
