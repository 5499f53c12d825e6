SPECIFICATION Spec
CONSTANTS
  s1 = s1  s2 = s2  s3 = s3  c1 = c1  l1 = l1  l2 = l2  l3 = l3
  NoSubscription = NoSubscription
  Socket <- Trio
  Conversation = {c1}
  Room <- OneRoom
  Subscription = {l1, l2, l3}
SYMMETRY TrioSymmetry
INVARIANTS TypeOK ConnectionsAreAttached RegisteredIsAlive OneTaskPerConversation
  NoOrphanSubscription ReadyIsListening CancelledIsAwaited
  StopLeavesNothingRunning
PROPERTY OnlyForceStrandsSockets
CHECK_DEADLOCK FALSE
