SPECIFICATION Spec
CONSTANTS
  MaxTurns = 2
  MaxAsks = 1
  MaxHeartbeats = 1
  Mishap = {"drop", "error", "cancel", "reload"}
  MaxMishaps = 2
  Reconnects = 3
INVARIANTS
  ShownAnswersAreTrue
  LockedPageIsWatched
PROPERTIES
  SendingEnds
CHECK_DEADLOCK FALSE
