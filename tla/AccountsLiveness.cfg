SPECIFICATION FairSpec
CONSTANTS
  r1 = r1  r2 = r2  r3 = r3  lower = lower  upper = upper  other = other
  Nobody = Nobody
  Request <- Three
  Email <- OneEmail
  Normal <- AsWritten
  AccessTTL = 1
  RefreshTTL = 1
  Latency = 1
  MaxTime = 0
PROPERTY RequestEnds
CHECK_DEADLOCK FALSE
