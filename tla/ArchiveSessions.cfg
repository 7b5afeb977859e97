CONSTANTS
    w1 = w1
    w2 = w2
    w3 = w3
    v1 = v1
    v2 = v2
    q1 = q1
    q2 = q2
    q3 = q3
    NoViewer = NoViewer
    Windows = {w1, w2, w3}
    Near <- NearPairs
    Viewers = {v1, v2}
    Requests = {q1, q2}
    MaxActive = 1
    Faults = {"directory", "start", "worker", "ffmpeg"}
SPECIFICATION Spec
SYMMETRY Symmetry
INVARIANTS
    TypeOK
    OneLeasePerViewer
    SlotHasOwner
