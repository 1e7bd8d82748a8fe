CONSTANTS
    Table = {p, c}
    Index = {i, j}
    NoTable = NoTable
    Null = Null
    Pk <- Values1
    Ref <- Values1
    NoRow = NoRow
    NoFile = NoFile
    Torn = Torn
    Prepared = {TRUE, FALSE}
    MaxStatements = 4
    MaxCrashes = 1
SPECIFICATION Spec
SYMMETRY Symmetry
INVARIANTS
    IndexesCoverRows
    StaleOnlyAfterOverwrite
    InsertedReferencesHold
    SchemaSound
    QueriesAgree
CHECK_DEADLOCK FALSE
