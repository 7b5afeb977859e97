CONSTANTS
    s1 = s1
    s2 = s2
    s3 = s3
    Sessions = {s1, s2}
    Reusable = {}
    WorkerCount = 1
    MaxPerDvr = 2
    MaxPerWorker = 2
    MaxOverlap = 1
    MaxLines = 2
    AllowReplace = FALSE
SPECIFICATION FairWorkersSpec
PROPERTIES
    LateStartCleanedUp
