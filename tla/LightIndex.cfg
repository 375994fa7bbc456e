SPECIFICATION MCSpec
CONSTANTS
    Order <- MCOrder
    Paths = {"live", "archive"}
    Restless = {"a", "c"}
    MaxLines = 2
    MaxOps = 2
INVARIANTS
    ScanRows
    
    CompleteHonest
PROPERTIES
    VisibleKept
    CatchesUp
