CONSTANTS
    r1 = r1
    r2 = r2
    None = None
    Start = 5
    Horizon = 6
    Delay = 1
    Lookback = 3
    Overlap = 1
    Chunk = 1
    BackfillRetention = 5
    Retention = 5
    Kinds <- MotionAndCrossing
    FilterWindow = 1
    DedupeWindow = 1
    Skew = 1
    Lag = 2
    MaxStale = 1
    Histories <- OneEventOrTwoMotions
    MaxOut = 1
    Ids = {r1, r2}
    SearchFails = FALSE
    StoreFails = TRUE
SPECIFICATION Spec
SYMMETRY Symmetry
INVARIANTS
    TypeOK
    CoveredCollected
    OneRowPerName
    BackfillContiguous
PROPERTIES
    NoHoleLeft
