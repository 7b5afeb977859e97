\* A caller that uses an id again at will, registration over a registered runtime.
CONSTANTS
    s1 = s1
    s2 = s2
    s3 = s3
    Sessions = {s1, s2}
    Reusable = {s1}
    WorkerCount = 2
    MaxPerDvr = 2
    MaxPerWorker = 1
    MaxOverlap = 2
    MaxLines = 1
    AllowReplace = TRUE
SPECIFICATION Spec
INVARIANTS
    TypeOK
    Capacity
    TimersFindNoWorker
    CallsAccounted
PROPERTIES
    PoolSpec
