SPECIFICATION FairSpec
CONSTANTS
  ip1 = ip1
  IPs = {ip1}
  Limit = 1
  Window = 2
  BlockTime = 5
  MaxLines = 3
  MaxFailures = 4
  QuietRotation = TRUE
INVARIANTS TypeOK BlockLasts
PROPERTIES BruteForceIsBlocked BlocksEnd
CHECK_DEADLOCK FALSE
