CONSTANTS
    Key = {1, 2, 3}
    Row = {a}
    NoRow = NoRow
    Order = 2
    Txn = {t1}
    Unknown = Unknown
    Stocked = {{1, 2}}
    Fresh = {TRUE, FALSE}
    AutoPut = {}
    AutoDelete = {3}
    Evicts = "always"
    Threads = FALSE
    Resumes = FALSE
    MaxTxnOps = 2
    MaxOps = 3
    MaxCrashes = 1
SPECIFICATION Spec
INVARIANTS
    
    NothingUnlogged
CHECK_DEADLOCK FALSE
