CONSTANTS
  s1 = s1
  s2 = s2
  t1 = t1
  c1 = c1
  c2 = c2
  c3 = c3
  None = None
  File = File
  Procs = {s1, s2, t1, c1, c2, c3}
  Servers = {s1, s2}
  Tools = {t1}
  Clients = {c1, c2, c3}
  Creat = {s1, s2, t1}
  Excl = {s1, s2}
  Mortal = {c2}
  Casts = {{c1, c2}, {c1, c2, c3}, {s1, c1, c2}, {s1, s2, c2}, {s1, t1, c2}}
  Sems = {1, 2}
  Keys = {11, 12}
  MAX_TRIES = 2
  NLoops = 2
CHECK_DEADLOCK FALSE
SPECIFICATION FairSpec
INVARIANTS NoUpdateLost
PROPERTIES AllFinish
