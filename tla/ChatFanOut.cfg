SPECIFICATION Spec
CONSTANTS
  p1 = p1  p2 = p2  s1 = s1  s2 = s2
  Process <- TwoProcesses
  Socket <- TwoSockets
  Home <- OneEach
  Asker = {s1}
  MaxSends = 1
  Attempts = 2
INVARIANTS TypeOK QuestionBeforeReply ReplyNeedsPublishedQuestion SenderLearnsOutcome SavedWhenToldSo NoOrphanMessage
PROPERTIES ImplementsFeed
CHECK_DEADLOCK FALSE
