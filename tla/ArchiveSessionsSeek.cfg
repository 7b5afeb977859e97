CONSTANTS
    w1 = w1
    w2 = w2
    w3 = w3
    v1 = v1
    v2 = v2
    q1 = q1
    q2 = q2
    q3 = q3
    NoViewer = NoViewer
    Windows = {w1, w2}
    Near = {}
    Viewers = {v1}
    Requests = {q1, q2}
    MaxActive = 2
    Faults = {}
SPECIFICATION Spec
INVARIANT SeekFreesSlot
