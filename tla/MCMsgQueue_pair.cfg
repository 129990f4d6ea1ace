CONSTANTS
  s1 = s1
  s2 = s2
  r1 = r1
  r2 = r2
  n1 = n1
  NoProc = NoProc
  NoMsg = NoMsg
  Procs = {s1, r1}
  Calls <- PairCalls
  mq_maxmsg = 3
  Prios = {0, 1}
  Bodies = {1, 2}
SPECIFICATION FairSpec
INVARIANT WaitsJustified
PROPERTIES BlockedCallsReturn ImplementsPrioQueue
