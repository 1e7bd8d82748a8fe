CONSTANTS
    Capacity = 2
    Backed = TRUE
    Val = {a, b}
    Blank = Blank
    Torn = Torn
    Absent = Absent
    Pages = 2
    MaxPages = 3
    MaxTouched = 3
    MaxLsn = 2
    MaxPins = 1
    MaxTorn = 1
    MaxCopies = 2
SPECIFICATION Spec
SYMMETRY Symmetry
INVARIANTS
    CacheCoherent
    FileBehindLog
    WorkingSetStays
PROPERTIES
    PinsRespected
CHECK_DEADLOCK FALSE
