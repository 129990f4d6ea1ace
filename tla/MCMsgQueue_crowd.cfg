CONSTANTS
  s1 = s1
  s2 = s2
  r1 = r1
  r2 = r2
  n1 = n1
  NoProc = NoProc
  NoMsg = NoMsg
  Procs = {s1, s2, r1, r2, n1}
  Calls <- CrowdCalls
  mq_maxmsg = 2
  Prios = {0}
  Bodies = {1}
SPECIFICATION Spec
INVARIANTS EverySlotOnOneList LockNeverLeaked NwaitCounts
PROPERTIES RegistrationKept SignalsExact
CHECK_DEADLOCK FALSE
