CONSTANTS
    Key = {1, 2, 3, 4, 5, 6, 7}
    Row = {a}
    NoRow = NoRow
    Order = 2
SPECIFICATION Spec
VIEW Shape
INVARIANTS
    WellFormed
    ChainMatchesTree
    ScanAgreesWithSearch
    CursorFollowsKeys
 
