SPECIFICATION FairBackupSpec
CONSTANTS
    fA = fA
    p1 = p1
    Files = {fA}
    Projects = {p1}
    RowsOf <- MCRowsOf
    MaxBatch = 1
    MaxTries = 2
    MaxConfirms = 1
    MaxTime = 3
    SourceKeep = 1
    RollbackKeep = 1
    MaxHolds = 1
    MaxCrashes = 1
    MaxBackups = 2
    BackupTime = 2
    MaxFaults = 1
INVARIANTS
  SourcesHold
  ReportsHold
PROPERTIES
  ProtectedIsKept
  KeepingSettles
CHECK_DEADLOCK FALSE
