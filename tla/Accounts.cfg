SPECIFICATION Spec
CONSTANTS
  r1 = r1  r2 = r2  r3 = r3  lower = lower  upper = upper  other = other
  Nobody = Nobody
  Request <- Three
  Email <- Emails
  Normal <- Lowercase
  AccessTTL = 1
  RefreshTTL = 1
  Latency = 1
  MaxTime = 3
SYMMETRY RequestSymmetry
INVARIANTS TypeOK OneAccountPerEmail TokensHaveAccounts SessionIsBounded
PROPERTIES ImplementsDirectory
CHECK_DEADLOCK FALSE
