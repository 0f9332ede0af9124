SPECIFICATION Spec
CONSTANTS
    root = root
    t1 = t1
    t2 = t2
    t3 = t3
    n1 = n1
    Master = master
    Shell = shell
    Root = root
    None = None
    Ids <- MCIds
    Start <- MCStart
    Serial <- MCSerial
    Occurrences = {0, 1}
    DefaultCritical = FALSE
    MaxEdits = 3
INVARIANTS
    TypeOK
    TreeValid
    OccurrencesOnce
    DeletedStaysDeleted
    RefreshSettles
PROPERTIES
    OrderKept
    CriticalTogether
CHECK_DEADLOCK FALSE
