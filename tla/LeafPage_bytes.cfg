CONSTANTS
    BodySize = 70
    MaxKeys = 3
    Keys <- SomeKeys
    Lengths = {0, 3, 12}
    NoPage = "none"
    MaxSlots = 4
SPECIFICATION Spec
INVARIANTS
    SpaceAccounted
    LeafIsMap
PROPERTIES
    SlotsStable
    
    SplitPartitions
