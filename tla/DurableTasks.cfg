SPECIFICATION Spec
CONSTANTS
  t1 = t1
  t2 = t2
  w1 = w1
  w2 = w2
  p1 = p1
  p2 = p2
  NoTask = NoTask
  Task = {t1, t2}
  Worker = {w1, w2}
  Publisher = {p1, p2}
  Handled = {t1}
  MaxAttempts = 2
  BrokerMayLose = TRUE
SYMMETRY ProcessSymmetry
INVARIANTS
  SchemaNeverRejects
  OneAttemptPerGeneration
PROPERTIES
  OnlyHolderCompletes
  RefinesLifecycle
CHECK_DEADLOCK FALSE
