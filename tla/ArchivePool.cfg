\* Fresh session ids, a registration only after the last one was unregistered.
CONSTANTS
    s1 = s1
    s2 = s2
    s3 = s3
    Sessions = {s1, s2, s3}
    Reusable = {}
    WorkerCount = 2
    MaxPerDvr = 3
    MaxPerWorker = 2
    MaxOverlap = 1
    MaxLines = 4
    AllowReplace = FALSE
SPECIFICATION Spec
SYMMETRY Symmetry
INVARIANTS
    OneCommandInFlight
    NoLeakedPlayback
    RoomForStart
    HeldIsPlaying
