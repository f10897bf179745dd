SPECIFICATION MCSpec
CONSTANTS
  Requester = {"MANUAL"}
  Weekly = {1}
  MaxUid = 1
  MaxValidity = 1
  MaxBatches = 1
  MaxAttempts = 1
  Window = 1
  MaxFaults = 0
  Project = {1, 2}
  Visible = {1, 2}
  MaxCandidates = 2
  MaxAttachments = 2
  MaxAttachmentSize = 2
  MaxTotalSize = 3
  MaxAttachmentChars = 3
  MaxDelivered = 4
  ZipLimits <- MCZipLimits
  Source <- MCSource
  Outputs <- MCOutputs
  Answers <- MCAnswers
  Filter <- MCFilter
  DefaultKeywords = {"weekly"}
  StageAttempts = 2
  MaxCands = 2
  MaxRetries = 1
  StageFaults = 1
INVARIANTS
  StagesHold
PROPERTIES
  WeeklyHears
  MessageSettles
CHECK_DEADLOCK FALSE
