SPECIFICATION FairSpec
CONSTANTS
  s1 = s1  s2 = s2  s3 = s3  c1 = c1  l1 = l1  l2 = l2  l3 = l3
  NoSubscription = NoSubscription
  Socket <- Pair
  Conversation = {c1}
  Room <- PairRoom
  Subscription = {l1, l2}
PROPERTIES ImplementsListener DroppedHandlerEnds WaitEnds RecoversAfterOutage StopEnds
CHECK_DEADLOCK FALSE
