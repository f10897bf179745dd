SPECIFICATION FairSpec
CONSTANTS
    r1 = r1
    r2 = r2
    Risks = {r1}
    MaxTodos = 2
    MaxRevision = 3
    MaxTries = 2
INVARIANTS
  AnswersHold
PROPERTIES
  StaleIsRebuilt
CHECK_DEADLOCK FALSE
