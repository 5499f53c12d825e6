SPECIFICATION FairSpec
CONSTANTS
  l1 = l1  send1 = send1  send2 = send2  probe = probe
  Subscription = {l1}
  Request = {send1}
  Probe = {}
  MaxConnections = 2
  MaxDatabase = 1
PROPERTY SubscribesAgain
CHECK_DEADLOCK FALSE
