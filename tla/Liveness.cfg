CONSTANTS
    s1 = s1
    s2 = s2
    p1 = p1
    k1 = k1
    k2 = k2
    w1 = w1
    w2 = w2
    v1 = v1
    q1 = q1
    q2 = q2
    d1 = d1
    c1 = c1
    c2 = c2
    Nil = Nil
    Sessions = {s1, s2}
    Reusable = {s1}
    WorkerCount = 1
    MaxPerDvr = 2
    MaxPerWorker = 2
    MaxOverlap = 1
    MaxLines = 2
    AllowReplace = FALSE
    Channels = 1
    DeviceKeys = {k1, k2}
    Reconciles = {p1}
    Runtimes = 2
    SpawnsFail = FALSE
    Windows = {w1, w2}
    Near = {}
    Viewers = {v1}
    NoViewer = NoViewer
    ArchiveRequests = {q1, q2}
    Devices = {d1}
    Rank <- OneRank
    Requests = {q1}
    Ticks = {q1}
    MaxActive = 1
    Faults = {"start", "directory"}
    Configs = {c1, c2}
    Enabled = {c1}
    MaxEvents = 2
SPECIFICATION SystemSpec
INVARIANTS
    FileCurrent
    RecordersCurrent
PROPERTIES
    EveryCallSettles
    DeviceServed
    ChannelServed
    CallsEnd
    MasterFollowed
