CONSTANTS
    None = None
    Plans <- SmallPlans
    MaxLeaves = 2
    SegLen = 2
    Segs = 2
SPECIFICATION FairSpec
CHECK_DEADLOCK FALSE
INVARIANTS
    TypeOK
    OneProducerPerStart
    NothingHalfWritten
    ViewerKept
    NoStaleWaiter
PROPERTIES
    MissingSegment
    EverythingEnds
