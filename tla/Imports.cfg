SPECIFICATION MCSpec
CONSTANTS
    fA = fA
    fB = fB
    fS = fS
    fN = fN
    p1 = p1
    p2 = p2
    l1 = l1
    l2 = l2
    Files = {fA, fB, fS, fN}
    Projects = {p1, p2}
    RowsOf <- MCRowsOf
    Lines = {l1, l2}
    SheetOf <- MCSheetOf
    LineAmounts <- MCLineAmounts
    ListAmounts <- MCListAmounts
    Instalments <- MCInstalments
    Attribute <- MCAttribute
    Department <- MCDepartment
    Progress = {p2}
    OtherRisks <- MCOtherRisks
    Readers <- MCReaders
    ThisMonth = 6
    MaxBatch = 2
    MaxTries = 2
    MaxConfirms = 2
INVARIANTS
  OneImportPerFile
  
PROPERTIES
  PagesAddUp
CHECK_DEADLOCK FALSE
