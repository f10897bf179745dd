SPECIFICATION MCSpec
CONSTANTS
    MaxTurns = 1
    MaxTasks = 2
    MaxAsks = 2
    MaxAttempts = 2
    Builder = {b1, b2}
    b1 = b1
    b2 = b2
    Conversation <- MCConversation
    Candidates <- MCCandidates
    Fixed = {3, 9, 30}
    Text = {0, 2, 9}
    MaxPasses = 2
    MaxBuilds = 5
    Draft = {1, 2}
    Token = {k1}
    k1 = k1
    TokenOp <- MCTokenOp
    Request = {q1, q2}
    q1 = q1
    q2 = q2
    MaxRegrants = 1
    Worker = {1}
    MaxRounds = 3
    MaxCalls = 3
    MaxParallel = 2
    Threshold = 2
    Reserve = 4
    Result <- MCResult
    Tools = {"search", "list", "create"}
INVARIANTS
  WaitingHasOpenAsk
  StreamAgreesWithTurn
  AnsweredTaskIsNotRerun
  PromptsAreComplete
  AnswersHaveTheirWrites
PROPERTIES
  NothingIsTakenBack
CHECK_DEADLOCK FALSE
