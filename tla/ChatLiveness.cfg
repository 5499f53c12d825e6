SPECIFICATION FairSpec
CONSTANTS
  p1 = p1  p2 = p2  s1 = s1  s2 = s2
  Process <- OneProcess
  Socket <- TwoSockets
  Home <- Together
  Asker = {s1}
  MaxSends = 1
  Attempts = 1
CHECK_DEADLOCK FALSE
PROPERTIES SendEnds FrameArrives ImplementsListener
