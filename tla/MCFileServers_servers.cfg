CONSTANTS
  c1 = c1
  c2 = c2
  c3 = c3
  Clients = {c1, c2, c3}
  MaxBlocks = 2
  MaxCap = 3
  MaxDeaths = 1
CHECK_DEADLOCK FALSE
SPECIFICATION FairSpec
INVARIANTS TypeOK OwnReply ZombiesReaped
PROPERTIES Served
