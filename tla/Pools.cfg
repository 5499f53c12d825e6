SPECIFICATION FairSpec
CONSTANTS
  l1 = l1  send1 = send1  send2 = send2  probe = probe
  Subscription = {l1}
  Request = {send1, send2, probe}
  Probe = {probe}
  MaxConnections = 5
  MaxDatabase = 2
INVARIANT TypeOK
PROPERTIES RecoversWithRoom SavesGoOn
CHECK_DEADLOCK FALSE
