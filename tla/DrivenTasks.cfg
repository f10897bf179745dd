SPECIFICATION DrivenFairSpec
CONSTANTS
  p1 = p1
  NoProc = NoProc
  Orphan = Orphan
  Proc = {p1}
  Actions <- TwoActions
  t1 = t1
  w1 = w1
  NoTask = NoTask
  Task = {t1}
  Worker = {w1}
  Handled = {t1}
  MaxAttempts = 2
  BrokerMayLose = FALSE
INVARIANTS
  NoDispatchLost
PROPERTIES
  DrivesTasks
  EveryTaskEnds
