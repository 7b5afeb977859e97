CONSTANTS
    r1 = r1
    r2 = r2
    None = None
    Start = 5
    Horizon = 8
    Delay = 1
    Lookback = 3
    Overlap = 1
    Chunk = 2
    BackfillRetention = 5
    Retention = 8
    Kinds <- MotionAndCrossing
    FilterWindow = 1
    DedupeWindow = 1
    Skew = 1
    Lag = 2
    MaxStale = 0
    Histories <- OneEventOrTwoMotions
    MaxOut = 1
    Ids = {r1, r2}
    SearchFails = FALSE
    StoreFails = FALSE
SPECIFICATION Spec
SYMMETRY Symmetry
INVARIANT GapsFilled
