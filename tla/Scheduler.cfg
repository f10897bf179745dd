SPECIFICATION FairSpec
CONSTANTS
  p1 = p1
  p2 = p2
  NoProc = NoProc
  Orphan = Orphan
  Proc = {p1, p2}
  Actions <- TwoActions
INVARIANTS
  OverlapNeedsLostSession
PROPERTIES
  EachActionKeepsRunning
  ProbeNoticesLoss
