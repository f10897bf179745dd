SPECIFICATION FairSpec
CONSTANTS
  Requester = {"MANUAL", "SCHEDULED"}
  Weekly = {1}
  MaxUid = 2
  MaxValidity = 2
  MaxBatches = 2
  MaxAttempts = 1
  Window = 1
  MaxFaults = 2
INVARIANTS
  OneRunning
  
PROPERTIES
  CursorOnlyReset
  BatchEnds
CHECK_DEADLOCK FALSE
